---- MODULE Spec2Model ----
(***************************************************************************)
(* Geodesic polygon measurement, measurement cache and coordinate sanity   *)
(* checker of the map drawing tool (src/unnamed/part_000, part_001 and     *)
(* src/map-script.js), with the drawing, upload, throttle and request      *)
(* handlers of part_000.                                                   *)
(*                                                                         *)
(* Numbers.  JavaScript doubles are modelled in fixed point:               *)
(*   - a coordinate is a decimal fraction <<n, d>> (value n/d, d a power   *)
(*     of ten), so that dividing by 10^7 and rounding to 6 decimals are    *)
(*     real operations;                                                    *)
(*   - angles in degrees are carried in centidegrees (1/100 degree);       *)
(*   - radians and the values of sin, cos, sqrt and atan2 are carried in   *)
(*     units of 1/10000 (ONE == 10000).                                    *)
(* Every product is arranged to stay below 2^31.                           *)
(***************************************************************************)
EXTENDS Integers, Sequences, FiniteSets, TLC

VARIABLES
    variant,                    \* which copy of the script is loaded
    areaCalculationCache,       \* Map in insertion order: <<key, value>> pairs
    perimeterCalculationCache,  \* Map in insertion order: <<key, value>> pairs
    lastCall,                   \* the most recent geometry call and its outcome
    calls,                      \* geometry calls made in a measuring session
    areaSeen,                   \* session rings handed to calculatePolygonArea
    perimeterSeen,              \* session rings handed to calculatePolygonPerimeter
    mapCenter,                  \* map.getCenter()
    coordinates,                \* the caller's array given to validateAndFixCoordinates
    validated,                  \* what validateAndFixCoordinates returned
    notifications,              \* showNotification calls of the last validation
    attempted,                  \* transform functions the last validation invoked
    polygonPoints,              \* the ring installed on the map
    aggressive,                 \* what tryAggressiveCorrection did in the last upload
    trace,                      \* notifications and steps of the last upload, in order
    isDrawing,                  \* drawing mode is on
    currentPolygon,             \* the polygon layer and the vertices it was built from
    totalArea,                  \* the area updateAreaInfo was last given
    lastEvent,                  \* the last user event and whether its handler ran
    currentUser,                \* window.currentUser
    areaCount,                  \* requests counted by the submission timer
    submissions,                \* submission timers set by proceedWithSubmission
    inThrottle,                 \* the flag of throttle(onMapClick, 100)
    now,                        \* time in units of 50 ms (instants of events when drawing)
    throttleTimer,              \* when the throttle's timer is due, -1 if none is set
    lastRun,                    \* when onMapClick last ran, -1 if never
    totalFiles,                 \* files.length of the handleFiles call
    processedFiles,             \* the counter of the handleFiles call
    reads,                      \* each file's FileReader: "pending" or "done"
    callbacks,                  \* how often each file's callback was invoked
    finalTimers,                \* 500 ms timers set by the callbacks
    finished                    \* how often the bar was removed and the end notified

geomVars == <<variant, areaCalculationCache, perimeterCalculationCache,
              lastCall, calls, areaSeen, perimeterSeen>>

fixVars == <<mapCenter, coordinates, validated, notifications, attempted,
             polygonPoints, aggressive, trace>>

drawVars == <<isDrawing, currentPolygon, totalArea>>

userVars == <<currentUser, areaCount, submissions>>

throttleVars == <<inThrottle, now, throttleTimer, lastRun>>

uploadVars == <<totalFiles, processedFiles, reads, callbacks, finalTimers, finished>>

sessionVars == <<lastEvent, userVars, throttleVars, uploadVars>>

pageVars == <<drawVars, sessionVars>>

vars == <<geomVars, fixVars, pageVars>>

\* ------------------------------------------------------------------------
\* Fixed-point arithmetic
\* ------------------------------------------------------------------------

\* fixed-point unit of radians and of trigonometric values
ONE == 100 * 100

\* Math.PI
PI == 31416

HALFPI == PI \div 2

TWOPI == 2 * PI

Abs(i) == IF i < 0 THEN -i ELSE i

Min2(a, b) == IF a <= b THEN a ELSE b

Max2(a, b) == IF a >= b THEN a ELSE b

\* a * b / c, truncated toward zero, without forming a * b when a is large
MulDiv(a, b, c) ==
    LET s  == IF (a < 0) = (b < 0) THEN 1 ELSE -1
        aa == Abs(a)
        bb == Abs(b)
        q  == aa \div c
        r  == aa % c
    IN  s * (q * bb + (r * bb) \div c)

\* Taylor polynomial of sin on [0, pi/2], Horner form
SinPoly(x) ==
    LET x2 == (x * x) \div ONE
        t3 == ONE - (x2 * ONE) \div (42 * ONE)
        t2 == ONE - (x2 * t3) \div (20 * ONE)
        t1 == ONE - (x2 * t2) \div (6 * ONE)
    IN  (x * t1) \div ONE

\* Math.sin of an angle in radians
Sin(x) ==
    LET s == IF x < 0 THEN -1 ELSE 1
        m == Abs(x) % TWOPI
        h == IF m > PI THEN m - PI ELSE m
        f == IF h > HALFPI THEN PI - h ELSE h
        v == SinPoly(f)
    IN  IF m > PI THEN -(s * v) ELSE s * v

\* Taylor polynomial of cos on [0, pi/2], Horner form
CosPoly(x) ==
    LET x2 == (x * x) \div ONE
        t4 == ONE - (x2 * ONE) \div (56 * ONE)
        t3 == ONE - (x2 * t4) \div (30 * ONE)
        t2 == ONE - (x2 * t3) \div (12 * ONE)
    IN  ONE - (x2 * t2) \div (2 * ONE)

\* Math.cos of an angle in radians
Cos(x) ==
    LET m == Abs(x) % TWOPI
        h == IF m > PI THEN TWOPI - m ELSE m
    IN  IF h > HALFPI THEN -CosPoly(PI - h) ELSE CosPoly(h)

RECURSIVE SqrtIter(_, _, _)
SqrtIter(n, lo, hi) ==
    IF hi - lo <= 1 THEN lo
    ELSE LET mid == (lo + hi) \div 2
         IN  IF mid * mid <= n THEN SqrtIter(n, mid, hi) ELSE SqrtIter(n, lo, mid)

\* Math.sqrt of a value in [0, 1] that is given in units of 1/ONE^2; a
\* negative argument (NaN in the code) is mapped to 0
Sqrt(a) == IF a <= 0 THEN 0 ELSE SqrtIter(a, 0, ONE + 1)

\* arctangent of a ratio z in [0, 1]
AtanUnit(z) == (z * ONE) \div (ONE + (28 * ((z * z) \div ONE)) \div 100)

\* Math.atan2(y, x), result in radians; y and x are in any common unit
Atan2(y, x) ==
    LET ay  == Abs(y)
        ax  == Abs(x)
        big == Max2(ay, ax)
        k   == big \div ONE + 1
        sy  == ay \div k
        sx  == ax \div k
        q   == IF big = 0 THEN 0
               ELSE IF sy <= sx THEN AtanUnit((sy * ONE) \div Max2(sx, 1))
               ELSE HALFPI - AtanUnit((sx * ONE) \div Max2(sy, 1))
        h   == IF x < 0 THEN PI - q ELSE q
    IN  IF y < 0 THEN -h ELSE h

\* ------------------------------------------------------------------------
\* Coordinates
\* ------------------------------------------------------------------------

\* the number n / d
Dec(n, d) == <<n, d>>

\* a whole number of degrees (or of projected units)
Whole(n) == <<n, 1>>

Num(x) == x[1]

Den(x) == x[2]

\* the value of a coordinate in centidegrees, truncated toward zero
Centi(x) ==
    IF Den(x) >= 100 THEN MulDiv(Num(x), 1, Den(x) \div 100)
    ELSE Num(x) * (100 \div Den(x))

Lat(p) == Centi(p[1])

Lng(p) == Centi(p[2])

\* degrees * Math.PI / 180, from centidegrees to radians
Rad(cd) == MulDiv(cd, PI, 18000)

\* Number.prototype.toFixed(6): sign, integer part and the six decimals
\* (as a count of millionths) of the value rounded half up
toFixed6(x) ==
    LET a   == Abs(Num(x))
        ip  == a \div Den(x)
        fr  == a % Den(x)
        mic == IF Den(x) <= 1000000 THEN fr * (1000000 \div Den(x))
               ELSE (fr \div (Den(x) \div 10000000) + 5) \div 10
        ci  == IF mic >= 1000000 THEN ip + 1 ELSE ip
        cm  == IF mic >= 1000000 THEN mic - 1000000 ELSE mic
    IN  <<IF Num(x) < 0 THEN "-" ELSE "", ci, cm>>

\* cacheKey made of the coordinates as they are
cacheKey_Unrounded(points) ==
    [i \in 1..Len(points) |-> <<points[i][1], points[i][2]>>]

\* points.map(p => `${p[0].toFixed(6)},${p[1].toFixed(6)}`).join('|')
cacheKey(points) ==
    [i \in 1..Len(points) |-> <<toFixed6(points[i][1]), toFixed6(points[i][2])>>]

\* ------------------------------------------------------------------------
\* Geometry Math
\* ------------------------------------------------------------------------

\* index of the vertex after i, (i + 1) % n with 1-based indices
NextIdx(i, n) == (i % n) + 1

RECURSIVE SumTo(_, _)
SumTo(f, n) == IF n = 0 THEN 0 ELSE f[n] + SumTo(f, n - 1)

\* the signed Shoelace sum, in units of 1/10000 square degree
ShoelaceSum(points) ==
    LET n == Len(points)
        term == [i \in 1..n |->
                   Lng(points[i]) * Lat(points[NextIdx(i, n)])
                 - Lng(points[NextIdx(i, n)]) * Lat(points[i])]
    IN  SumTo(term, n)

\* ShoelaceAreaKm2 without Math.abs
ShoelaceAreaKm2_NoAbs(points) ==
    LET n      == Len(points)
        area   == ShoelaceSum(points) \div 2
        latSum == SumTo([i \in 1..n |-> Lat(points[i])], n)
        avgLat == MulDiv(latSum, 1, n)
        conversionFactor ==
            MulDiv(MulDiv(111320, Cos(Rad(avgLat)), ONE), 111320 \div 10, 100000)
    IN  MulDiv(area, conversionFactor, ONE)

\* the part of calculatePolygonArea after the cache lookup: km^2
ShoelaceAreaKm2(points) ==
    LET n      == Len(points)
        area   == Abs(ShoelaceSum(points)) \div 2
        latSum == SumTo([i \in 1..n |-> Lat(points[i])], n)
        avgLat == MulDiv(latSum, 1, n)
        latRad == Rad(avgLat)
        metersPerDegreeLat == 111320
        metersPerDegreeLng == MulDiv(metersPerDegreeLat, Cos(latRad), ONE)
        conversionFactor   == MulDiv(metersPerDegreeLng, metersPerDegreeLat \div 10, 100000)
    IN  MulDiv(area, conversionFactor, ONE)

\* one pass of the Haversine loop body: the distance in metres that the
\* edge from p to q adds to the perimeter, given the cosine used for the
\* first latitude
HaversineEdge(cosLat1, p, q) ==
    LET lat1        == Rad(Lat(p))
        lat2        == Rad(Lat(q))
        deltaLat    == lat2 - lat1
        deltaLng    == Rad(Lng(q) - Lng(p))
        sinDeltaLat == Sin(MulDiv(deltaLat, 1, 2))
        sinDeltaLng == Sin(MulDiv(deltaLng, 1, 2))
        cosLat2     == Cos(lat2)
        a == sinDeltaLat * sinDeltaLat
             + MulDiv(sinDeltaLng * sinDeltaLng, MulDiv(cosLat1, cosLat2, ONE), ONE)
        c == 2 * Atan2(Sqrt(a), Sqrt(ONE * ONE - a))
    IN  (6371 * c) \div 10

\* the cosine every edge is given as cos(lat1): the hoisted code works it
\* out once, from points[0]
HoistedCosLat1(points, i) == Cos(Rad(Lat(points[1])))

\* the part of calculatePolygonPerimeter (part_000, part_001) after the
\* cache lookup: km in units of 1/1000, i.e. metres
HaversinePerimeterKm(points) ==
    LET n == Len(points)
        distance == [i \in 1..n |->
                       HaversineEdge(HoistedCosLat1(points, i), points[i], points[NextIdx(i, n)])]
    IN  SumTo(distance, n)

\* calculatePolygonPerimeter of map-script.js: cos(lat1) of each edge
PlainPerimeterKm(points) ==
    LET n == Len(points)
        distance == [i \in 1..n |->
                       HaversineEdge(Cos(Rad(Lat(points[i]))), points[i], points[NextIdx(i, n)])]
    IN  SumTo(distance, n)

\* a JavaScript number that may fail to be finite; a finite one is carried
\* in units of 1/ONE
Finite(n) == [kind |-> "finite", n |-> n]

NaN == [kind |-> "NaN", n |-> 0]

Infinity(sign) == [kind |-> "Infinity", n |-> sign]

\* a / b of two numbers: x / 0 is an infinity and 0 / 0 is NaN
JsDivide(a, b) ==
    IF b = 0 THEN IF a = 0 THEN NaN ELSE Infinity(IF a > 0 THEN 1 ELSE -1)
    ELSE IF Abs(b) < 100000 THEN Finite(MulDiv(a, ONE, b))
    ELSE Finite(MulDiv(a, 100, b \div 100))

\* the set of latitudes or longitudes of a ring, in centidegrees
Along(points, axis) == {Centi(points[i][axis]) : i \in 1..Len(points)}

\* calculateCentroid: null for no points, else [y / n, x / n], the mean of
\* the latitudes and the mean of the longitudes, each held as the fraction
\* (sum in centidegrees) / (100 n)
calculateCentroid(points) ==
    IF Len(points) = 0 THEN [ok |-> FALSE, lat |-> Whole(0), lng |-> Whole(0)]
    ELSE [ok |-> TRUE,
          lat |-> Dec(SumTo([i \in 1..Len(points) |-> Lat(points[i])], Len(points)),
                      100 * Len(points)),
          lng |-> Dec(SumTo([i \in 1..Len(points) |-> Lng(points[i])], Len(points)),
                      100 * Len(points))]

\* calculateBoundingBox with the scan begun at 0 instead of at points[0]
calculateBoundingBox_FromZero(points) ==
    IF Len(points) = 0
    THEN [ok |-> FALSE, minLat |-> 0, maxLat |-> 0, minLng |-> 0, maxLng |-> 0,
          width |-> 0, height |-> 0]
    ELSE LET lats == Along(points, 1) \cup {0}
             lngs == Along(points, 2) \cup {0}
             least(S) == CHOOSE m \in S : \A k \in S : m <= k
             most(S)  == CHOOSE m \in S : \A k \in S : k <= m
         IN  [ok |-> TRUE, minLat |-> least(lats), maxLat |-> most(lats),
              minLng |-> least(lngs), maxLng |-> most(lngs),
              width |-> most(lngs) - least(lngs), height |-> most(lats) - least(lats)]

\* calculateBoundingBox: null for no points, else the extremes, in
\* centidegrees
calculateBoundingBox(points) ==
    IF Len(points) = 0
    THEN [ok |-> FALSE, minLat |-> 0, maxLat |-> 0, minLng |-> 0, maxLng |-> 0,
          width |-> 0, height |-> 0]
    ELSE LET lats == Along(points, 1)
             lngs == Along(points, 2)
             least(S) == CHOOSE m \in S : \A k \in S : m <= k
             most(S)  == CHOOSE m \in S : \A k \in S : k <= m
         IN  [ok |-> TRUE, minLat |-> least(lats), maxLat |-> most(lats),
              minLng |-> least(lngs), maxLng |-> most(lngs),
              width |-> most(lngs) - least(lngs), height |-> most(lats) - least(lats)]

\* bbox.width * 111320 * Math.cos(latRad), in metres
WidthM(bbox) ==
    MulDiv(MulDiv(bbox.width, 111320, 100),
           Cos(Rad((bbox.minLat + bbox.maxLat) \div 2)), ONE)

\* bbox.height * 111320, in metres
HeightM(bbox) == MulDiv(bbox.height, 111320, 100)

\* calculateAspectRatio, the same in the three scripts
calculateAspectRatio(points) ==
    IF ~calculateBoundingBox(points).ok THEN Finite(0)
    ELSE JsDivide(WidthM(calculateBoundingBox(points)), HeightM(calculateBoundingBox(points)))

\* ------------------------------------------------------------------------
\* Measurement Cache
\* ------------------------------------------------------------------------

\* Map.prototype.has
Has(cache, key) == \E i \in 1..Len(cache) : cache[i][1] = key

\* Map.prototype.get of a key that is present
Get(cache, key) == cache[CHOOSE i \in 1..Len(cache) : cache[i][1] = key][2]

\* Map.prototype.set: a new key goes last, a present key keeps its place
Set(cache, key, value) ==
    IF Has(cache, key)
    THEN [i \in 1..Len(cache) |-> IF cache[i][1] = key THEN <<key, value>> ELSE cache[i]]
    ELSE Append(cache, <<key, value>>)

\* Array.from(cache.keys())
Keys(cache) == [i \in 1..Len(cache) |-> cache[i][1]]

\* keysToDelete.forEach(key => cache.delete(key)) for the first k keys
DeleteFirst(cache, k) == SubSeq(cache, Min2(k, Len(cache)) + 1, Len(cache))

\* StoreEvicting with slice(25) for slice(0, 25): drops the newest entries
StoreEvicting_DropNewest(cache, key, value) ==
    IF Len(cache) < 50 THEN Set(cache, key, value)
    ELSE Set(SubSeq(cache, 1, 25), key, value)

\* StoreEvicting without the eviction
StoreEvicting_NoEviction(cache, key, value) == Set(cache, key, value)

\* the caching tail of part_000: below 50 entries insert, otherwise drop
\* the 25 first-inserted entries and insert
StoreEvicting(cache, key, value) ==
    IF Len(cache) < 50 THEN Set(cache, key, value)
    ELSE Set(DeleteFirst(cache, 25), key, value)

\* the caching tail of part_001: insert only below 100 entries
StoreBounded(cache, key, value) ==
    IF Len(cache) < 100 THEN Set(cache, key, value) ELSE cache

\* the record of a call: its function, argument and return value, whether
\* it ran the computation, and a bit that alternates from call to call
Call(fn, points, value, computed) ==
    [fn |-> fn, points |-> points, value |-> value, computed |-> computed,
     tick |-> 1 - lastCall.tick]

NoCall == [fn |-> "none", points |-> <<>>, value |-> 0, computed |-> FALSE, tick |-> 0]

\* calculatePolygonArea of part_000 with "points.length < 2" for its test
calculatePolygonArea_TwoSuffice(points) ==
    /\ variant = "part_000"
    /\ UNCHANGED <<variant, perimeterCalculationCache>>
    /\ IF Len(points) < 2
       THEN /\ lastCall' = Call("area", points, 0, FALSE)
            /\ UNCHANGED areaCalculationCache
       ELSE IF Has(areaCalculationCache, cacheKey(points))
       THEN /\ lastCall' = Call("area", points, Get(areaCalculationCache, cacheKey(points)), FALSE)
            /\ UNCHANGED areaCalculationCache
       ELSE /\ lastCall' = Call("area", points, ShoelaceAreaKm2(points), TRUE)
            /\ areaCalculationCache' =
                   StoreEvicting(areaCalculationCache, cacheKey(points), ShoelaceAreaKm2(points))

\* calculatePolygonArea of part_000
calculatePolygonArea(points) ==
    /\ variant = "part_000"
    /\ UNCHANGED <<variant, perimeterCalculationCache>>
    /\ IF Len(points) < 3
       THEN /\ lastCall' = Call("area", points, 0, FALSE)
            /\ UNCHANGED areaCalculationCache
       ELSE IF Has(areaCalculationCache, cacheKey(points))
       THEN /\ lastCall' = Call("area", points, Get(areaCalculationCache, cacheKey(points)), FALSE)
            /\ UNCHANGED areaCalculationCache
       ELSE /\ lastCall' = Call("area", points, ShoelaceAreaKm2(points), TRUE)
            /\ areaCalculationCache' =
                   StoreEvicting(areaCalculationCache, cacheKey(points), ShoelaceAreaKm2(points))

\* calculatePolygonPerimeter of part_000 keeping its values in the Map of
\* the areas as well
calculatePolygonPerimeter_OneMap(points) ==
    /\ variant = "part_000"
    /\ UNCHANGED variant
    /\ IF Len(points) < 2
       THEN /\ lastCall' = Call("perimeter", points, 0, FALSE)
            /\ UNCHANGED <<areaCalculationCache, perimeterCalculationCache>>
       ELSE IF Has(perimeterCalculationCache, cacheKey(points))
       THEN /\ lastCall' = Call("perimeter", points, Get(perimeterCalculationCache, cacheKey(points)), FALSE)
            /\ UNCHANGED <<areaCalculationCache, perimeterCalculationCache>>
       ELSE /\ lastCall' = Call("perimeter", points, HaversinePerimeterKm(points), TRUE)
            /\ perimeterCalculationCache' =
                   StoreEvicting(perimeterCalculationCache, cacheKey(points), HaversinePerimeterKm(points))
            /\ areaCalculationCache' =
                   StoreEvicting(areaCalculationCache, cacheKey(points), HaversinePerimeterKm(points))

\* calculatePolygonPerimeter of part_000
calculatePolygonPerimeter(points) ==
    /\ variant = "part_000"
    /\ UNCHANGED <<variant, areaCalculationCache>>
    /\ IF Len(points) < 2
       THEN /\ lastCall' = Call("perimeter", points, 0, FALSE)
            /\ UNCHANGED perimeterCalculationCache
       ELSE IF Has(perimeterCalculationCache, cacheKey(points))
       THEN /\ lastCall' = Call("perimeter", points, Get(perimeterCalculationCache, cacheKey(points)), FALSE)
            /\ UNCHANGED perimeterCalculationCache
       ELSE /\ lastCall' = Call("perimeter", points, HaversinePerimeterKm(points), TRUE)
            /\ perimeterCalculationCache' =
                   StoreEvicting(perimeterCalculationCache, cacheKey(points), HaversinePerimeterKm(points))

\* calculatePolygonArea of part_001
calculatePolygonArea_001(points) ==
    /\ variant = "part_001"
    /\ UNCHANGED <<variant, perimeterCalculationCache>>
    /\ IF Len(points) < 3
       THEN /\ lastCall' = Call("area", points, 0, FALSE)
            /\ UNCHANGED areaCalculationCache
       ELSE IF Has(areaCalculationCache, cacheKey(points))
       THEN /\ lastCall' = Call("area", points, Get(areaCalculationCache, cacheKey(points)), FALSE)
            /\ UNCHANGED areaCalculationCache
       ELSE /\ lastCall' = Call("area", points, ShoelaceAreaKm2(points), TRUE)
            /\ areaCalculationCache' =
                   StoreBounded(areaCalculationCache, cacheKey(points), ShoelaceAreaKm2(points))

\* calculatePolygonPerimeter of part_001
calculatePolygonPerimeter_001(points) ==
    /\ variant = "part_001"
    /\ UNCHANGED <<variant, areaCalculationCache>>
    /\ IF Len(points) < 2
       THEN /\ lastCall' = Call("perimeter", points, 0, FALSE)
            /\ UNCHANGED perimeterCalculationCache
       ELSE IF Has(perimeterCalculationCache, cacheKey(points))
       THEN /\ lastCall' = Call("perimeter", points, Get(perimeterCalculationCache, cacheKey(points)), FALSE)
            /\ UNCHANGED perimeterCalculationCache
       ELSE /\ lastCall' = Call("perimeter", points, HaversinePerimeterKm(points), TRUE)
            /\ perimeterCalculationCache' =
                   StoreBounded(perimeterCalculationCache, cacheKey(points), HaversinePerimeterKm(points))

\* calculatePolygonArea of map-script.js: no cache
calculatePolygonArea_map(points) ==
    /\ variant = "map-script"
    /\ UNCHANGED <<variant, areaCalculationCache, perimeterCalculationCache>>
    /\ IF Len(points) < 3
       THEN lastCall' = Call("area", points, 0, FALSE)
       ELSE lastCall' = Call("area", points, ShoelaceAreaKm2(points), TRUE)

\* calculatePolygonPerimeter of map-script.js: no cache, no length guard
calculatePolygonPerimeter_map(points) ==
    /\ variant = "map-script"
    /\ UNCHANGED <<variant, areaCalculationCache, perimeterCalculationCache>>
    /\ lastCall' = Call("perimeter", points, PlainPerimeterKm(points), TRUE)

\* ------------------------------------------------------------------------
\* Coordinate Sanity Checker (part_000).  Uploaded coordinates are whole
\* numbers; the transforms produce decimal fractions.
\* ------------------------------------------------------------------------

\* a function's "return null"
Null == [ok |-> FALSE, ring |-> <<>>]

\* a function's "return ring"
Some(ring) == [ok |-> TRUE, ring |-> ring]

\* Math.abs(x) <= k for a whole number k
AbsLe(x, k) ==
    LET a == Abs(Num(x))
    IN  \/ a \div Den(x) < k
        \/ a \div Den(x) = k /\ a % Den(x) = 0

\* Math.abs(x) > k for a whole number k
AbsGt(x, k) == ~AbsLe(x, k)

\* Math.abs(c[0]) <= 90 && Math.abs(c[1]) <= 180
InWGS84Range(c) == AbsLe(c[1], 90) /\ AbsLe(c[2], 180)

\* x / scale
DivBy(x, scale) ==
    IF Den(x) <= 10000000 \div scale THEN Dec(Num(x), Den(x) * scale)
    ELSE Dec(MulDiv(Num(x), 1, scale), Den(x))

\* x - offset
Minus(x, offset) == Dec(Num(x) - offset * Den(x), Den(x))

\* coordinates.map(coord => [coord[1], coord[0]])
Swapped(coords) == [i \in 1..Len(coords) |-> <<coords[i][2], coords[i][1]>>]

\* coordinates.map(coord => [coord[0] / scale, coord[1] / scale])
Scaled(coords, scale) ==
    [i \in 1..Len(coords) |-> <<DivBy(coords[i][1], scale), DivBy(coords[i][2], scale)>>]

\* coordinates.map(coord => [coord[0] - offset, coord[1] - offset])
Shifted(coords, offset) ==
    [i \in 1..Len(coords) |-> <<Minus(coords[i][1], offset), Minus(coords[i][2], offset)>>]

\* the first index of a list of candidate rings whose first vertex is in
\* range, 0 when there is none: "for (...) { if (...) return ...; }"
FirstAccepted(candidates) ==
    LET ok == {k \in 1..Len(candidates) : InWGS84Range(candidates[k][1])}
    IN  IF ok = {} THEN 0 ELSE CHOOSE k \in ok : \A j \in ok : k <= j

\* the loop over candidate rings: the first accepted one, or null
FirstOf(candidates) ==
    LET k == FirstAccepted(candidates)
    IN  IF k = 0 THEN Null ELSE Some(candidates[k])

\* tryScalingTransform with its divisors in ascending order
tryScalingTransform_Ascending(coords) ==
    LET scaleFactors == <<10, 100, 1000, 10000, 100000, 1000000, 10000000>>
    IN  FirstOf([k \in 1..Len(scaleFactors) |-> Scaled(coords, scaleFactors[k])])

tryScalingTransform(coords) ==
    LET scaleFactors == <<10000000, 1000000, 100000, 10000, 1000, 100, 10>>
    IN  FirstOf([k \in 1..Len(scaleFactors) |-> Scaled(coords, scaleFactors[k])])

trySwapTransform(coords) == FirstOf(<<Swapped(coords)>>)

tryOffsetTransform(coords) ==
    LET offsets == <<10000000, 1000000, 100000, 10000, 1000>>
    IN  FirstOf([k \in 1..Len(offsets) |-> Shifted(coords, offsets[k])])

tryMixedTransform(coords) ==
    LET scaleFactors == <<1000000, 100000, 10000, 1000>>
    IN  FirstOf([k \in 1..Len(scaleFactors) |-> Swapped(Scaled(coords, scaleFactors[k]))])

\* the transformations array of trySimpleScaling in the order the claim
\* C9 gives to the steps
transformations_ScaleSwapSecond ==
    <<"tryScalingTransform", "tryMixedTransform", "tryOffsetTransform", "trySwapTransform">>

\* the transformations array of trySimpleScaling
transformations ==
    <<"tryScalingTransform", "trySwapTransform", "tryOffsetTransform", "tryMixedTransform">>

\* transform.func()
Transform(name, coords) ==
    CASE name = "tryScalingTransform" -> tryScalingTransform(coords)
      [] name = "trySwapTransform" -> trySwapTransform(coords)
      [] name = "tryOffsetTransform" -> tryOffsetTransform(coords)
      [] name = "tryMixedTransform" -> tryMixedTransform(coords)

\* the result of a function together with the transforms it invoked
Ran(res, tried) == [res |-> res, tried |-> tried]

RECURSIVE RunTransformations(_, _, _)
\* "for (const transform of transformations)" from position i on
RunTransformations(coords, i, tried) ==
    IF i > Len(transformations) THEN Ran(Null, tried)
    ELSE LET result == Transform(transformations[i], coords)
         IN  IF result.ok THEN Ran(result, Append(tried, transformations[i]))
             ELSE RunTransformations(coords, i + 1, Append(tried, transformations[i]))

\* analyzeCoordinateSystem only feeds console.log and is left out
trySimpleScaling(coords) == RunTransformations(coords, 1, <<>>)

\* the inverse Transverse Mercator formulas of convertUTMToWGS84 and
\* tryConvertMinnaDatum for one coordinate: <<lat, lng>> in centidegrees.
\* ak0 is a * scaleFactor in metres, m0 the divisor of mu in units of 100 m,
\* c2 and c4 the coefficients of sin(2mu) and sin(4mu) in units of 10^-7
\* (the coefficient of sin(6mu) is below 10^-7), e2 in units of 10^-5
\* lat1 from mu by the series in sin(2 mu) and sin(4 mu), coefficients in 1e-7;
\* the sin(6 mu) term (coefficient 7e-9) is below the resolution ONE
FootpointLatitude(mu, c2, c4) ==
    mu + MulDiv(c2 * Sin(2 * mu), 1, 10000000) + MulDiv(c4 * Sin(4 * mu), 1, 10000000)

\* a * scaleFactor * (1 - e2 * sin(lat1)^2) * cos(lat1), in metres
MeridianRadius(ak0, e2, sinLat1, cosLat1) ==
    MulDiv(MulDiv(ak0, ONE - MulDiv(MulDiv(sinLat1, sinLat1, ONE), e2, 100000), ONE),
           cosLat1, ONE)

\* latitude and longitude in centidegrees from x, lat1 and the meridian
DegreesOf(x, lat1, ak0, e2, centralMeridian) ==
    <<MulDiv(lat1, 18000, PI),
      MulDiv(centralMeridian * ONE + Atan2(x, MeridianRadius(ak0, e2, Sin(lat1), Cos(lat1))),
             18000, PI)>>

InverseTM(coord, ak0, m0, c2, c4, e2, centralMeridian) ==
    DegreesOf(Num(coord[1]) \div Den(coord[1]) - 500000,
              FootpointLatitude(MulDiv(Num(coord[2]) \div Den(coord[2]), 100, m0), c2, c4),
              ak0, e2, centralMeridian)

\* convertUTMToWGS84: WGS84 ellipsoid a = 6378137, e2 = 0.00669438
\* a pair of centidegrees as a coordinate
FromCenti(ll) == <<Dec(ll[1], 100), Dec(ll[2], 100)>>

\* a pair of centidegrees, each raised by 0.0001 degree, as a coordinate
FromCentiShifted(ll) == <<Dec(ll[1] * 100 + 1, 10000), Dec(ll[2] * 100 + 1, 10000)>>

convertUTMToWGS84(coords, zone, centralMeridian) ==
    FirstOf(<<[i \in 1..Len(coords) |->
        FromCenti(InverseTM(coords[i], 6375586, 63649, 25188, 37, 669, centralMeridian))]>>)

\* the zones and central meridians tried by tryConvertUTMCoordinates
utmZones == <<<<32, 9>>, <<31, 3>>, <<33, 15>>, <<18, -75>>, <<19, -69>>, <<10, -123>>, <<11, -117>>>>

\* the first non-null result in a list of results, or null
FirstResult(results) ==
    IF \A k \in 1..Len(results) : ~results[k].ok THEN Null
    ELSE results[CHOOSE k \in 1..Len(results) :
                    results[k].ok /\ \A j \in 1..(k - 1) : ~results[j].ok]

tryConvertUTMCoordinates(coords) ==
    IF AbsGt(coords[1][1], 100000) /\ AbsGt(coords[1][2], 100000)
    THEN FirstResult([k \in 1..Len(utmZones) |->
                        convertUTMToWGS84(coords, utmZones[k][1], utmZones[k][2])])
    ELSE Null

\* x >= minEasting && x <= maxEasting && y >= minNorthing && y <= maxNorthing
InMinnaBounds(c) ==
    /\ Num(c[1]) >= 100000 * Den(c[1])
    /\ Num(c[1]) <= 900000 * Den(c[1])
    /\ Num(c[2]) >= 100000 * Den(c[2])
    /\ Num(c[2]) <= 1200000 * Den(c[2])

\* tryConvertMinnaDatum: a = 6378249.145, e2 = 0.006722670, central
\* meridian 9, and a shift of 0.0001 degree on both axes
tryConvertMinnaDatum(coords) ==
    IF InMinnaBounds(coords[1])
    THEN FirstOf(<<[i \in 1..Len(coords) |->
             FromCentiShifted(InverseTM(coords[i], 6375698, 63650, 25295, 37, 672, 9))]>>)
    ELSE Null

tryGenericCoordinateTransform(coords) ==
    LET scaleFactors == <<1000000, 100000, 10000, 1000, 100>>
        plain  == [k \in 1..Len(scaleFactors) |-> Scaled(coords, scaleFactors[k])]
        swapit == [k \in 1..Len(scaleFactors) |-> Scaled(Swapped(coords), scaleFactors[k])]
    IN  IF AbsGt(coords[1][1], 10000) \/ AbsGt(coords[1][2], 10000)
        THEN FirstOf(plain \o swapit)
        ELSE Null

\* showNotification(message, type); the message is named by its subject
Note(message, type) == <<message, type>>

\* what a call of validateAndFixCoordinates yields: the returned value, the
\* notifications shown and the transform functions invoked
Outcome(result, notes, tried) == [result |-> result, notes |-> notes, tried |-> tried]

\* LargeMagnitude that gives the ring back when every transform fails
LargeMagnitude_GivesRingBack(coords) ==
    LET scaling == trySimpleScaling(coords)
        utm     == tryConvertUTMCoordinates(coords)
    IN  IF scaling.res.ok
        THEN Outcome(scaling.res, <<Note("simple scaling", "success")>>, scaling.tried)
        ELSE IF utm.ok
        THEN Outcome(utm, <<Note("UTM to WGS84", "success")>>,
                     scaling.tried \o <<"tryConvertUTMCoordinates">>)
        ELSE Outcome(Some(coords),
                     <<Note("projection system, not WGS84", "error"),
                       Note("coordinate ranges", "warning")>>,
                     scaling.tried \o <<"tryConvertUTMCoordinates", "tryConvertMinnaDatum",
                                        "tryGenericCoordinateTransform">>)

\* the branch "Math.abs(lat) > 1000 || Math.abs(lng) > 1000"
LargeMagnitude(coords) ==
    LET scaling == trySimpleScaling(coords)
        utm     == tryConvertUTMCoordinates(coords)
        minna   == tryConvertMinnaDatum(coords)
        generic == tryGenericCoordinateTransform(coords)
    IN  IF scaling.res.ok
        THEN Outcome(scaling.res, <<Note("simple scaling", "success")>>, scaling.tried)
        ELSE IF utm.ok
        THEN Outcome(utm, <<Note("UTM to WGS84", "success")>>,
                     scaling.tried \o <<"tryConvertUTMCoordinates">>)
        ELSE IF minna.ok
        THEN Outcome(minna, <<Note("Minna Datum to WGS84", "success")>>,
                     scaling.tried \o <<"tryConvertUTMCoordinates", "tryConvertMinnaDatum">>)
        ELSE IF generic.ok
        THEN Outcome(generic, <<Note("converted to WGS84", "success")>>,
                     scaling.tried \o <<"tryConvertUTMCoordinates", "tryConvertMinnaDatum",
                                        "tryGenericCoordinateTransform">>)
        ELSE Outcome(Null,
                     <<Note("projection system, not WGS84", "error"),
                       Note("coordinate ranges", "warning")>>,
                     scaling.tried \o <<"tryConvertUTMCoordinates", "tryConvertMinnaDatum",
                                        "tryGenericCoordinateTransform">>)

\* distanceFromCenter > 20, with both sides squared, in centidegrees
FarFromView(first, center) ==
    LET dLat == Centi(first[1]) - Centi(center[1])
        dLng == Centi(first[2]) - Centi(center[2])
    IN  dLat * dLat + dLng * dLng > 20 * 20 * 100 * 100

\* the branch "!isValidWGS84" that exchanges the components of every vertex
\* where the code only warns of a different coordinate system
Invalid_WarnedRingSwapped(coords) ==
    IF InWGS84Range(<<coords[1][2], coords[1][1]>>)
    THEN Outcome(Some(Swapped(coords)), <<Note("lat/lng were swapped", "info")>>, <<>>)
    ELSE IF AbsGt(coords[1][1], 1000) \/ AbsGt(coords[1][2], 1000)
    THEN LargeMagnitude(coords)
    ELSE Outcome(Some(Swapped(coords)), <<Note("different coordinate system", "warning")>>, <<>>)

\* the branch "!isValidWGS84"
Invalid(coords) ==
    IF InWGS84Range(<<coords[1][2], coords[1][1]>>)
    THEN Outcome(Some(Swapped(coords)), <<Note("lat/lng were swapped", "info")>>, <<>>)
    ELSE IF AbsGt(coords[1][1], 1000) \/ AbsGt(coords[1][2], 1000)
    THEN LargeMagnitude(coords)
    ELSE Outcome(Some(coords), <<Note("different coordinate system", "warning")>>, <<>>)

\* the branch "isValidWGS84"
Valid(coords, center) ==
    IF FarFromView(coords[1], center)
    THEN Outcome(Some(coords), <<Note("far from the current map view", "warning")>>, <<>>)
    ELSE Outcome(Some(coords), <<>>, <<>>)

\* validateAndFixCoordinates with the swap test made before the range test
Validate_SwapFirst(coords, center) ==
    IF Len(coords) = 0 THEN Outcome(Some(coords), <<>>, <<>>)
    ELSE IF InWGS84Range(<<coords[1][2], coords[1][1]>>) THEN Invalid(coords)
    ELSE IF InWGS84Range(coords[1]) THEN Valid(coords, center)
    ELSE Invalid(coords)

\* validateAndFixCoordinates that swaps the first vertex only
Validate_SwapFirstVertexOnly(coords, center) ==
    IF Len(coords) = 0 THEN Outcome(Some(coords), <<>>, <<>>)
    ELSE IF InWGS84Range(coords[1]) THEN Valid(coords, center)
    ELSE IF InWGS84Range(<<coords[1][2], coords[1][1]>>)
    THEN Outcome(Some([i \in 1..Len(coords) |->
                         IF i = 1 THEN <<coords[1][2], coords[1][1]>> ELSE coords[i]]),
                 <<Note("lat/lng were swapped", "info")>>, <<>>)
    ELSE Invalid(coords)

\* validateAndFixCoordinates as a function of its argument and the map centre
Validate(coords, center) ==
    IF Len(coords) = 0 THEN Outcome(Some(coords), <<>>, <<>>)
    ELSE IF InWGS84Range(coords[1]) THEN Valid(coords, center)
    ELSE Invalid(coords)

\* validateAndFixCoordinates(ring): the argument array is only read
validateAndFixCoordinates(ring) ==
    LET outcome == Validate(ring, mapCenter)
    IN  /\ coordinates' = ring
        /\ validated' = outcome.result
        /\ notifications' = outcome.notes
        /\ attempted' = outcome.tried
        /\ UNCHANGED <<mapCenter, variant, areaCalculationCache,
                       perimeterCalculationCache, lastCall, areaSeen, perimeterSeen,
                       polygonPoints, aggressive, trace, pageVars>>

\* what tryAggressiveCorrection returns and the step of it that returned
Corrected(res, step) == [called |-> TRUE, res |-> res, step |-> step]

\* tryAggressiveCorrection was not invoked
NotCalled == [called |-> FALSE, res |-> Null, step |-> "none"]

\* the largest and the smallest member of a set of numbers
SetMax(S) == CHOOSE m \in S : \A k \in S : k <= m

SetMin(S) == CHOOSE m \in S : \A k \in S : m <= k

\* n * (coord[axis] - center) for vertex i: the sum is taken over the
\* differences, which is the same number and stays small
Centered(coords, axis, i) ==
    SumTo([j \in 1..Len(coords) |-> Num(coords[i][axis]) - Num(coords[j][axis])],
          Len(coords))

\* (coord[axis] - center) * scale in units of 1/10000, where scale is
\* range > 0 ? Math.min(10 / range, 1) : 1, each axis with its own range
CenteredScaled(coords, axis, i) ==
    LET all   == {Num(coords[j][axis]) : j \in 1..Len(coords)}
        range == SetMax(all) - SetMin(all)
    IN  IF range > 10
        THEN MulDiv(Centered(coords, axis, i), 100000, Len(coords) * range)
        ELSE MulDiv(Centered(coords, axis, i), 10000, Len(coords))

\* the last resort of tryAggressiveCorrection for rings of whole numbers:
\* lat = 8.0 + centeredY, lng = 8.0 + centeredX
PreserveShape(coords) ==
    [i \in 1..Len(coords) |->
        <<Dec(80000 + CenteredScaled(coords, 2, i), 10000),
          Dec(80000 + CenteredScaled(coords, 1, i), 10000)>>]

\* the candidate of each pass of the loop over extremeScales: the scaled
\* ring, then the scaled ring with its components exchanged
ExtremeCandidates(coords) ==
    LET extremeScales == <<10000000, 1000000, 100000, 10000, 1000, 100, 10, 1>>
    IN  [k \in 1..(2 * Len(extremeScales)) |->
            IF k % 2 = 1 THEN Scaled(coords, extremeScales[(k + 1) \div 2])
            ELSE Swapped(Scaled(coords, extremeScales[k \div 2]))]

OffsetCandidates(coords) ==
    LET offsets == <<1000000, 100000, 10000, 1000>>
    IN  [k \in 1..Len(offsets) |-> Shifted(coords, offsets[k])]

\* the step that accepted candidate k of the extreme scales
ExtremeStep(k) == IF k % 2 = 1 THEN "scaling" ELSE "scaling with swap"

\* tryAggressiveCorrection: no step throws for a ring of numbers, so the
\* catch that returns null is not entered
tryAggressiveCorrection(coords) ==
    IF FirstOf(ExtremeCandidates(coords)).ok
    THEN Corrected(FirstOf(ExtremeCandidates(coords)),
                   ExtremeStep(FirstAccepted(ExtremeCandidates(coords))))
    ELSE IF FirstOf(OffsetCandidates(coords)).ok
    THEN Corrected(FirstOf(OffsetCandidates(coords)), "offset")
    ELSE Corrected(Some(PreserveShape(coords)), "preserving relative shape")

\* map.setView([9.0765, 7.3986], 10) of initializeMap
InitialCenter == <<Dec(90765, 10000), Dec(73986, 10000)>>

\* centres the user can move the map to
MapCenters == {InitialCenter, <<Whole(40), Whole(-100)>>}

\* centerOnLocation(lat, lng): the user picks a search result
centerOnLocation ==
    /\ mapCenter' \in MapCenters \ {mapCenter}
    /\ UNCHANGED <<geomVars, coordinates, validated, notifications, attempted,
                   polygonPoints, aggressive, trace, pageVars>>

\* a step of displayUploadedData that is not a notification
Step(name) == <<name, "step">>

\* the parsed file handed to displayUploadedData: null, a Polygon with one
\* ring or a LineString
NoData == [type |-> "null", coordinates |-> <<>>]

Polygon(ring) == [type |-> "Polygon", coordinates |-> <<ring>>]

LineString(ring) == [type |-> "LineString", coordinates |-> ring]

\* parsed JSON {"type": "Polygon"} with no coordinates member
PolygonWithoutCoordinates == [type |-> "Polygon without coordinates", coordinates |-> <<>>]

\* "coordinates = data.coordinates[0]" throws a TypeError
Throws(data) == data.type = "Polygon without coordinates"

\* "coordinates = data.coordinates[0]" or "coordinates = data.coordinates"
Extracted(data) ==
    IF data.type = "Polygon" THEN data.coordinates[1] ELSE data.coordinates

\* the centre map.fitBounds(currentPolygon.getBounds()) moves the map to,
\* taken as the middle of the bounds, in centidegrees
BoundsCenter(ring) ==
    LET lats == {Lat(ring[i]) : i \in 1..Len(ring)}
        lngs == {Lng(ring[i]) : i \in 1..Len(ring)}
    IN  <<Dec((SetMin(lats) + SetMax(lats)) \div 2, 100),
          Dec((SetMin(lngs) + SetMax(lngs)) \div 2, 100)>>

\* Checked without the notification that follows a successful last resort
Checked_NoWarning(outcome, correction) ==
    IF outcome.result.ok
    THEN [ring |-> outcome.result.ring, returned |-> FALSE, aggressive |-> NotCalled,
          trace |-> <<Step("validateAndFixCoordinates")>> \o outcome.notes]
    ELSE IF correction.res.ok
    THEN [ring |-> correction.res.ring, returned |-> FALSE, aggressive |-> correction,
          trace |-> <<Step("validateAndFixCoordinates")>> \o outcome.notes
                    \o <<Step("tryAggressiveCorrection")>>]
    ELSE [ring |-> <<>>, returned |-> TRUE, aggressive |-> correction,
          trace |-> <<Step("validateAndFixCoordinates")>> \o outcome.notes
                    \o <<Step("tryAggressiveCorrection"),
                          Note("Cannot display uploaded data", "error")>>]

\* the part of displayUploadedData from "Validate and fix coordinates" to
\* the test of the length, for a non-empty ring: the ring that goes on,
\* whether the function returned early, and the steps taken
Checked(outcome, correction) ==
    IF outcome.result.ok
    THEN [ring |-> outcome.result.ring, returned |-> FALSE, aggressive |-> NotCalled,
          trace |-> <<Step("validateAndFixCoordinates")>> \o outcome.notes]
    ELSE IF correction.res.ok
    THEN [ring |-> correction.res.ring, returned |-> FALSE, aggressive |-> correction,
          trace |-> <<Step("validateAndFixCoordinates")>> \o outcome.notes
                    \o <<Step("tryAggressiveCorrection"),
                          Note("corrected using aggressive method", "warning")>>]
    ELSE [ring |-> <<>>, returned |-> TRUE, aggressive |-> correction,
          trace |-> <<Step("validateAndFixCoordinates")>> \o outcome.notes
                    \o <<Step("tryAggressiveCorrection"),
                          Note("Cannot display uploaded data", "error")>>]

\* the tail of displayUploadedData: the ring is installed and measured
\* when it has 3 vertices or more
Installed(ring) == Len(ring) >= 3

TailTrace(ring) ==
    IF Installed(ring)
    THEN <<Step("polygonPoints"), Step("calculatePolygonArea"),
           Step("calculatePolygonPerimeter"), Step("fitBounds"),
           Note("AOI loaded successfully", "success")>>
    ELSE <<Note("Invalid geometry", "error")>>

\* displayUploadedData(data, fileName) of part_000, from clearMap() on
Display(checkedRing, returned) ==
    /\ polygonPoints' = IF ~returned /\ Installed(checkedRing) THEN checkedRing ELSE <<>>
    /\ isDrawing' = FALSE
    /\ currentPolygon' = IF ~returned /\ Installed(checkedRing) THEN Some(checkedRing) ELSE Null
    /\ totalArea' = IF ~returned /\ Installed(checkedRing)
                    THEN IF Has(areaCalculationCache, cacheKey(checkedRing))
                         THEN Get(areaCalculationCache, cacheKey(checkedRing))
                         ELSE ShoelaceAreaKm2(checkedRing)
                    ELSE 0
    /\ IF ~returned /\ Installed(checkedRing)
       THEN /\ areaCalculationCache' =
                   IF Has(areaCalculationCache, cacheKey(checkedRing))
                   THEN areaCalculationCache
                   ELSE StoreEvicting(areaCalculationCache, cacheKey(checkedRing),
                                      ShoelaceAreaKm2(checkedRing))
            /\ perimeterCalculationCache' =
                   IF Has(perimeterCalculationCache, cacheKey(checkedRing))
                   THEN perimeterCalculationCache
                   ELSE StoreEvicting(perimeterCalculationCache, cacheKey(checkedRing),
                                      HaversinePerimeterKm(checkedRing))
            /\ lastCall' =
                   [fn |-> "perimeter", points |-> checkedRing,
                    value |-> IF Has(perimeterCalculationCache, cacheKey(checkedRing))
                              THEN Get(perimeterCalculationCache, cacheKey(checkedRing))
                              ELSE HaversinePerimeterKm(checkedRing),
                    computed |-> ~Has(perimeterCalculationCache, cacheKey(checkedRing)),
                    tick |-> lastCall.tick]
            /\ mapCenter' = BoundsCenter(checkedRing)
       ELSE UNCHANGED <<areaCalculationCache, perimeterCalculationCache, lastCall, mapCenter>>

\* displayUploadedData once the ring has been validated and, after a null,
\* handed to the last resort
DisplayChecked(checked) ==
    /\ aggressive' = checked.aggressive
    /\ trace' = <<Note("Map cleared successfully", "info")>> \o checked.trace
                 \o (IF checked.returned THEN <<>> ELSE TailTrace(checked.ring))
    /\ Display(checked.ring, checked.returned)

\* displayUploadedData from the call of validateAndFixCoordinates on
DisplayValidated(ring, outcome) ==
    /\ coordinates' = ring
    /\ validated' = outcome.result
    /\ notifications' = outcome.notes
    /\ attempted' = outcome.tried
    /\ DisplayChecked(Checked(outcome, IF outcome.result.ok THEN NotCalled
                                       ELSE tryAggressiveCorrection(ring)))

\* displayUploadedData(data, fileName) of part_000
displayUploadedData(data) ==
    /\ variant = "part_000"
    /\ UNCHANGED <<variant, areaSeen, perimeterSeen>>
    /\ IF data.type = "null"
       THEN /\ trace' = <<Note("No valid geometry found", "warning")>>
            /\ UNCHANGED <<areaCalculationCache, perimeterCalculationCache, lastCall,
                           mapCenter, coordinates, validated, notifications, attempted,
                           polygonPoints, aggressive, drawVars>>
       ELSE IF Throws(data)
       THEN /\ trace' = <<Note("Map cleared successfully", "info")>>
            /\ polygonPoints' = <<>>
            /\ currentPolygon' = Null
            /\ totalArea' = 0
            /\ isDrawing' = FALSE
            /\ UNCHANGED <<areaCalculationCache, perimeterCalculationCache, lastCall,
                           mapCenter, coordinates, validated, notifications, attempted,
                           aggressive>>
       ELSE IF Len(Extracted(data)) = 0
       THEN /\ trace' = <<Note("Map cleared successfully", "info")>> \o TailTrace(<<>>)
            /\ aggressive' = NotCalled
            /\ Display(<<>>, FALSE)
            /\ UNCHANGED <<coordinates, validated, notifications, attempted>>
       ELSE DisplayValidated(Extracted(data), Validate(Extracted(data), mapCenter))

\* ------------------------------------------------------------------------
\* Decoders (part_000).  A text is a sequence of one-character strings.
\* ------------------------------------------------------------------------

DigitChars == <<"0", "1", "2", "3", "4", "5", "6", "7", "8", "9">>

IsDigit(c) == \E d \in 1..10 : DigitChars[d] = c

DigitValue(c) == (CHOOSE d \in 1..10 : DigitChars[d] = c) - 1

RECURSIVE DigitRun(_, _)
\* the number of digits of the text from position i on
DigitRun(text, i) ==
    IF i <= Len(text) /\ IsDigit(text[i]) THEN 1 + DigitRun(text, i + 1) ELSE 0

RECURSIVE DigitsValue(_)
\* the number a run of digits writes
DigitsValue(digits) ==
    IF digits = <<>> THEN 0
    ELSE 10 * DigitsValue(SubSeq(digits, 1, Len(digits) - 1)) + DigitValue(digits[Len(digits)])

RECURSIVE Pow10(_)
Pow10(k) == IF k = 0 THEN 1 ELSE 10 * Pow10(k - 1)

\* a number that parseFloat has read
Decimal(x) == [kind |-> "finite", n |-> x]

\* parseFloat: the longest prefix "sign digits . digits" of the text is
\* read and what follows it is ignored; NaN when that prefix has no digit.
\* Exponents and the word Infinity are not in the texts modelled.
parseFloat(text) ==
    LET start == IF Len(text) >= 1 /\ text[1] \in {"-", "+"} THEN 2 ELSE 1
        ni    == DigitRun(text, start)
        nf    == IF start + ni <= Len(text) /\ text[start + ni] = "."
                 THEN DigitRun(text, start + ni + 1) ELSE 0
        mag   == DigitsValue(SubSeq(text, start, start + ni - 1)) * Pow10(nf)
                 + DigitsValue(SubSeq(text, start + ni + 1, start + ni + nf))
    IN  IF ni + nf = 0 THEN NaN
        ELSE Decimal(Dec(IF start = 2 /\ text[1] = "-" THEN -mag ELSE mag, Pow10(nf)))

isNaN(x) == x.kind = "NaN"

RECURSIVE Split(_, _)
\* String.prototype.split(separator) for a one-character separator
Split(text, separator) ==
    IF \A i \in 1..Len(text) : text[i] # separator THEN <<text>>
    ELSE LET i == CHOOSE i \in 1..Len(text) :
                     text[i] = separator /\ \A j \in 1..(i - 1) : text[j] # separator
         IN  <<SubSeq(text, 1, i - 1)>> \o Split(SubSeq(text, i + 1, Len(text)), separator)

NonEmpty(text) == text # <<>>

\* text.trim().split(/\s+/), the white space being blanks: the runs of
\* other characters, or one empty string when there is none
SplitWhitespace(text) ==
    IF SelectSeq(Split(text, " "), NonEmpty) = <<>> THEN <<<<>>>>
    ELSE SelectSeq(Split(text, " "), NonEmpty)

\* DecodePair that pushes the parts in the order of the text
DecodePair_OrderOfText(pair) ==
    IF Len(Split(pair, ",")) >= 2
       /\ ~isNaN(parseFloat(Split(pair, ",")[2]))
       /\ ~isNaN(parseFloat(Split(pair, ",")[1]))
    THEN <<<<parseFloat(Split(pair, ",")[1]).n, parseFloat(Split(pair, ",")[2]).n>>>>
    ELSE <<>>

\* the body of coordPairs.forEach for one pair: the vertices it pushes
DecodePair(pair) ==
    IF Len(Split(pair, ",")) >= 2
       /\ ~isNaN(parseFloat(Split(pair, ",")[2]))
       /\ ~isNaN(parseFloat(Split(pair, ",")[1]))
    THEN <<<<parseFloat(Split(pair, ",")[2]).n, parseFloat(Split(pair, ",")[1]).n>>>>
    ELSE <<>>

RECURSIVE Concat(_)
\* the concatenation of a list of lists
Concat(lists) == IF lists = <<>> THEN <<>> ELSE Head(lists) \o Concat(Tail(lists))

\* coordPairs.forEach over the text of a coordinates element
DecodeCoordinates(coordText) ==
    Concat([k \in 1..Len(SplitWhitespace(coordText)) |->
               DecodePair(SplitWhitespace(coordText)[k])])

\* the tail shared by parseKML and parseGPX
Shape(decoded) ==
    IF Len(decoded) >= 3 THEN Polygon(decoded)
    ELSE IF Len(decoded) > 0 THEN LineString(decoded)
    ELSE NoData

\* parseKML with "coordinates.length > 3" for the Polygon
parseKML_FourForPolygon(kmlDoc) ==
    IF ~kmlDoc.wellFormed THEN NoData
    ELSE LET decoded == Concat([k \in 1..Len(kmlDoc.placemarks) |->
                 IF kmlDoc.placemarks[k].geometry \in {"Polygon", "LineString"}
                 THEN DecodeCoordinates(kmlDoc.placemarks[k].coordinates)
                 ELSE <<>>])
         IN  IF Len(decoded) > 3 THEN Polygon(decoded)
             ELSE IF Len(decoded) > 0 THEN LineString(decoded)
             ELSE NoData

\* parseKML of a document given as what DOMParser makes of it: whether it
\* is well formed, and for each Placemark its geometry element and the
\* text of that element's coordinates
parseKML(kmlDoc) ==
    IF ~kmlDoc.wellFormed THEN NoData
    ELSE Shape(Concat([k \in 1..Len(kmlDoc.placemarks) |->
             IF kmlDoc.placemarks[k].geometry \in {"Polygon", "LineString"}
             THEN DecodeCoordinates(kmlDoc.placemarks[k].coordinates)
             ELSE <<>>]))

\* trackPoints.forEach for one point
DecodePoint(point) ==
    IF ~isNaN(parseFloat(point.lat)) /\ ~isNaN(parseFloat(point.lon))
    THEN <<<<parseFloat(point.lat).n, parseFloat(point.lon).n>>>>
    ELSE <<>>

\* parseGPX of a document given as the lat and lon attributes of its
\* trkpt, wpt and rtept elements; a document that is not well formed has
\* no such element
parseGPX(gpxDoc) ==
    IF ~gpxDoc.wellFormed THEN NoData
    ELSE Shape(Concat([k \in 1..Len(gpxDoc.points) |-> DecodePoint(gpxDoc.points[k])]))

\* the state once the script has loaded
\* ------------------------------------------------------------------------
\* Drawing: the handlers that change the ring on the map (part_000)
\* ------------------------------------------------------------------------

\* what the drawing handlers leave alone
idleVars == <<variant, calls, areaSeen, perimeterSeen, coordinates, validated,
              notifications, attempted, aggressive, trace, userVars, uploadVars>>

\* what calculatePolygonArea(ring) returns in the current state
AreaValue(ring) ==
    IF Len(ring) < 3 THEN 0
    ELSE IF Has(areaCalculationCache, cacheKey(ring))
    THEN Get(areaCalculationCache, cacheKey(ring))
    ELSE ShoelaceAreaKm2(ring)

\* "calculatePolygonArea(ring)" followed by "calculatePolygonPerimeter(ring)"
\* for a ring of 3 vertices or more
Calculated(ring) ==
    /\ areaCalculationCache' =
           IF Has(areaCalculationCache, cacheKey(ring)) THEN areaCalculationCache
           ELSE StoreEvicting(areaCalculationCache, cacheKey(ring), ShoelaceAreaKm2(ring))
    /\ perimeterCalculationCache' =
           IF Has(perimeterCalculationCache, cacheKey(ring)) THEN perimeterCalculationCache
           ELSE StoreEvicting(perimeterCalculationCache, cacheKey(ring),
                              HaversinePerimeterKm(ring))
    /\ lastCall' =
           [fn |-> "perimeter", points |-> ring,
            value |-> IF Has(perimeterCalculationCache, cacheKey(ring))
                      THEN Get(perimeterCalculationCache, cacheKey(ring))
                      ELSE HaversinePerimeterKm(ring),
            computed |-> ~Has(perimeterCalculationCache, cacheKey(ring)),
            tick |-> lastCall.tick]

\* "const area = calculatePolygonArea(ring); const perimeter =
\* calculatePolygonPerimeter(ring); updateAreaInfo(area, perimeter, ring)"
\* for a ring of 3 vertices or more
Measured(ring) ==
    /\ Calculated(ring)
    /\ totalArea' = AreaValue(ring)

\* nothing is measured
NotMeasured == UNCHANGED <<areaCalculationCache, perimeterCalculationCache, lastCall>>

\* startDrawing that keeps the previous ring and its polygon
startDrawing_KeepsRing ==
    /\ isDrawing' = ~isDrawing
    /\ UNCHANGED <<polygonPoints, currentPolygon>>
    /\ NotMeasured
    /\ UNCHANGED <<totalArea, mapCenter, idleVars>>

\* startDrawing: the Draw Area button; updateAreaInfo is not called
startDrawing ==
    /\ IF isDrawing
       THEN /\ isDrawing' = FALSE
            /\ UNCHANGED <<polygonPoints, currentPolygon>>
       ELSE /\ isDrawing' = TRUE
            /\ currentPolygon' = Null
            /\ polygonPoints' = <<>>
    /\ NotMeasured
    /\ UNCHANGED <<totalArea, mapCenter, idleVars>>

\* stopDrawing
stopDrawing ==
    /\ isDrawing' = FALSE
    /\ NotMeasured
    /\ UNCHANGED <<polygonPoints, currentPolygon, totalArea, mapCenter, idleVars>>

\* onMapClick(e) with e.latlng = latlng
onMapClick(latlng) ==
    /\ IF ~isDrawing
       THEN /\ NotMeasured
            /\ UNCHANGED <<polygonPoints, currentPolygon, totalArea>>
       ELSE /\ polygonPoints' = Append(polygonPoints, latlng)
            /\ IF Len(polygonPoints) + 1 >= 3
               THEN /\ currentPolygon' = Some(Append(polygonPoints, latlng))
                    /\ Measured(Append(polygonPoints, latlng))
               ELSE /\ NotMeasured
                    /\ UNCHANGED <<currentPolygon, totalArea>>
    /\ UNCHANGED <<isDrawing, mapCenter, idleVars>>

\* onMapRightClick(e): the last vertex is taken back; below 3 vertices
\* updateAreaInfo(0, 0, []) runs and currentPolygon is not assigned
onMapRightClick ==
    /\ IF isDrawing /\ Len(polygonPoints) > 0
       THEN /\ polygonPoints' = SubSeq(polygonPoints, 1, Len(polygonPoints) - 1)
            /\ IF Len(polygonPoints) - 1 >= 3
               THEN /\ currentPolygon' = Some(SubSeq(polygonPoints, 1, Len(polygonPoints) - 1))
                    /\ Measured(SubSeq(polygonPoints, 1, Len(polygonPoints) - 1))
               ELSE /\ totalArea' = 0
                    /\ NotMeasured
                    /\ UNCHANGED currentPolygon
       ELSE /\ NotMeasured
            /\ UNCHANGED <<polygonPoints, currentPolygon, totalArea>>
    /\ UNCHANGED <<isDrawing, mapCenter, idleVars>>

\* onMapDoubleClick(e): ends the drawing of a ring of 3 vertices or more
\* and fits the map to its polygon
onMapDoubleClick ==
    /\ IF isDrawing /\ Len(polygonPoints) >= 3
       THEN /\ isDrawing' = FALSE
            /\ mapCenter' = IF currentPolygon.ok THEN BoundsCenter(currentPolygon.ring)
                            ELSE mapCenter
       ELSE UNCHANGED <<isDrawing, mapCenter>>
    /\ NotMeasured
    /\ UNCHANGED <<polygonPoints, currentPolygon, totalArea, idleVars>>

\* clearMap: updateAreaInfo(0, 0, []) and stopDrawing() included
clearMap ==
    /\ polygonPoints' = <<>>
    /\ currentPolygon' = Null
    /\ totalArea' = 0
    /\ isDrawing' = FALSE
    /\ NotMeasured
    /\ UNCHANGED <<mapCenter, idleVars>>

\* what the confirm button of saveArea stores for the ring on the map
SavedArea(ring) == [coordinates |-> ring, area |-> ShoelaceAreaKm2(ring)]

\* loadAreaData(areaData): clearMap(), then the saved ring is installed
\* with the saved area and the map is fitted to it
loadAreaData(areaData) ==
    /\ polygonPoints' = areaData.coordinates
    /\ currentPolygon' = Some(areaData.coordinates)
    /\ totalArea' = areaData.area
    /\ isDrawing' = FALSE
    /\ mapCenter' = BoundsCenter(areaData.coordinates)
    /\ NotMeasured
    /\ UNCHANGED idleVars

\* ------------------------------------------------------------------------
\* Users and requests (part_000)
\* ------------------------------------------------------------------------

\* window.currentUser before anything is assigned to it
Undefined == "undefined"

\* the object login, registration and the storage assign to
\* window.currentUser
UserObject == "user"

\* what the submission handlers leave alone
requestIdle == <<variant, calls, areaSeen, perimeterSeen, fixVars, drawVars, uploadVars>>

\* loadUserFromStorage: the stored item, when there is one, is assigned
loadUserFromStorage(userData) ==
    /\ currentUser' = IF userData = "absent" THEN currentUser ELSE UserObject
    /\ UNCHANGED <<areaCount, submissions, areaCalculationCache,
                   perimeterCalculationCache, lastCall, requestIdle>>

\* the timer of handleLogin and of handleRegister
handleLogin ==
    /\ currentUser' = UserObject
    /\ UNCHANGED <<areaCount, submissions, areaCalculationCache,
                   perimeterCalculationCache, lastCall, requestIdle>>

\* logout
logout ==
    /\ currentUser' = "null"
    /\ UNCHANGED <<areaCount, submissions, areaCalculationCache,
                   perimeterCalculationCache, lastCall, requestIdle>>

\* isLoggedIn: "window.currentUser !== null"
isLoggedIn == currentUser # "null"

\* submitRequest; proceedWithSubmission measures the ring again and sets
\* the 2000 ms timer that records the request
submitRequest ==
    /\ IF Len(polygonPoints) < 3
       THEN /\ NotMeasured
            /\ UNCHANGED submissions
       ELSE IF AreaValue(polygonPoints) < 1 \/ ~isLoggedIn
       THEN /\ calculatePolygonArea(polygonPoints)
            /\ UNCHANGED submissions
       ELSE /\ Calculated(polygonPoints)
            /\ submissions' = submissions + 1
    /\ UNCHANGED <<currentUser, areaCount, requestIdle>>

\* the timer of proceedWithSubmission: areaCount++ and the request is
\* pushed to userRequests
submissionTimeout ==
    /\ submissions > 0
    /\ submissions' = submissions - 1
    /\ areaCount' = areaCount + 1
    /\ UNCHANGED <<currentUser, areaCalculationCache, perimeterCalculationCache,
                   lastCall, requestIdle>>

\* ------------------------------------------------------------------------
\* File upload: handleFiles and processFile (part_000)
\* ------------------------------------------------------------------------

\* what becomes of a file: the read fails, the extension is not handled,
\* the parser throws, the parser returns null, the parsed data is
\* displayed, or displayUploadedData throws on the parsed data
FileKinds == {"readError", "unsupported", "parseThrows", "noData", "data", "displayThrows"}

\* how often processFile invokes its callback for a file: callback(true,
\* data) stands inside the try block, so an exception thrown by the
\* callback is caught and callback(false, null) is called as well
Invocations(kind) == IF kind = "displayThrows" THEN 2 ELSE 1

\* what the handling of a file leaves alone when nothing is displayed
undisplayed == <<variant, areaCalculationCache, perimeterCalculationCache, lastCall,
                 areaSeen, perimeterSeen, fixVars, drawVars>>

\* handleFiles(files) for n files: the counters of the call are set up and
\* every file is handed to a FileReader
handleFiles(n) ==
    /\ n > 0
    /\ totalFiles' = n
    /\ processedFiles' = 0
    /\ reads' = [i \in 1..n |-> "pending"]
    /\ callbacks' = [i \in 1..n |-> 0]
    /\ finalTimers' = 0
    /\ finished' = 0
    /\ UNCHANGED undisplayed

\* reader.onload or reader.onerror of file i, with every invocation of
\* the callback of handleFiles it makes: processedFiles++, then the data
\* is displayed, then the 500 ms timer is set if processedFiles ===
\* totalFiles.  An invocation in which displayUploadedData throws does
\* not reach that test.
fileRead(i, kind, data) ==
    /\ reads[i] = "pending"
    /\ reads' = [reads EXCEPT ![i] = "done"]
    /\ callbacks' = [callbacks EXCEPT ![i] = @ + Invocations(kind)]
    /\ processedFiles' = processedFiles + Invocations(kind)
    /\ finalTimers' = IF processedFiles + Invocations(kind) = totalFiles
                      THEN finalTimers + 1 ELSE finalTimers
    /\ IF kind = "data" THEN displayUploadedData(data)
       ELSE IF kind = "displayThrows" THEN displayUploadedData(PolygonWithoutCoordinates)
       ELSE UNCHANGED undisplayed
    /\ UNCHANGED <<totalFiles, finished>>

\* the 500 ms timer: progressBar.remove() and the notification
\* "file(s) processed successfully"
progressTimeout ==
    /\ finalTimers > 0
    /\ finalTimers' = finalTimers - 1
    /\ finished' = finished + 1
    /\ UNCHANGED <<totalFiles, processedFiles, reads, callbacks, undisplayed>>

\* no user event has happened yet
NoEvent == [event |-> "none", executed |-> FALSE, tick |-> 0]

\* a user event, whether its handler ran, and a bit that alternates from
\* event to event
Event(name, executed) ==
    [event |-> name, executed |-> executed, tick |-> 1 - lastEvent.tick]

\* the limit of throttle(onMapClick, 100): 100 ms, in units of 50 ms
ClickLimit == 2

\* the function returned by throttle(onMapClick, 100) that never sets
\* inThrottle
throttle_onMapClick_NeverSet(latlng) ==
    /\ onMapClick(latlng)
    /\ lastEvent' = Event("click", TRUE)
    /\ lastRun' = now
    /\ UNCHANGED <<inThrottle, throttleTimer, now>>

\* the function returned by throttle(onMapClick, 100), called with a click
\* at latlng: "if (!inThrottle) { func.apply(context, args); inThrottle =
\* true; setTimeout(() => inThrottle = false, limit); }"
throttle_onMapClick(latlng) ==
    /\ IF ~inThrottle
       THEN /\ onMapClick(latlng)
            /\ inThrottle' = TRUE
            /\ throttleTimer' = now + ClickLimit
            /\ lastRun' = now
            /\ lastEvent' = Event("click", TRUE)
       ELSE /\ lastEvent' = Event("click", FALSE)
            /\ UNCHANGED <<inThrottle, throttleTimer, lastRun>>
            /\ UNCHANGED <<geomVars, fixVars, drawVars, userVars, uploadVars>>
    /\ UNCHANGED now

\* the timer of the throttle: "() => inThrottle = false", run when limit
\* milliseconds or more have passed
throttleTimeout ==
    /\ throttleTimer # -1
    /\ now >= throttleTimer
    /\ inThrottle' = FALSE
    /\ throttleTimer' = -1
    /\ UNCHANGED <<geomVars, fixVars, drawVars, lastEvent, userVars, uploadVars, now, lastRun>>

PageLoaded ==
    /\ areaCalculationCache = <<>>
    /\ perimeterCalculationCache = <<>>
    /\ lastCall = NoCall
    /\ calls = 0
    /\ areaSeen = 0
    /\ perimeterSeen = 0
    /\ mapCenter = InitialCenter
    /\ coordinates = <<>>
    /\ validated = Some(<<>>)
    /\ notifications = <<>>
    /\ attempted = <<>>
    /\ polygonPoints = <<>>
    /\ aggressive = NotCalled
    /\ trace = <<>>
    /\ isDrawing = FALSE
    /\ currentPolygon = Null
    /\ totalArea = 0
    /\ lastEvent = NoEvent
    /\ currentUser = Undefined
    /\ areaCount = 0
    /\ submissions = 0
    /\ inThrottle = FALSE
    /\ now = 0
    /\ throttleTimer = -1
    /\ lastRun = -1
    /\ totalFiles = 0
    /\ processedFiles = 0
    /\ reads = <<>>
    /\ callbacks = <<>>
    /\ finalTimers = 0
    /\ finished = 0

\* ------------------------------------------------------------------------
\* Geometry specification: single measurements of rings on a coarse grid
\* ------------------------------------------------------------------------

MaxRingLen == 3

GridLat == {0, 30, 60}

GridLng == {0, 40}

GridVertices == {<<Whole(la), Whole(lo)>> : la \in GridLat, lo \in GridLng}

RECURSIVE SeqsOfLen(_, _)
SeqsOfLen(S, n) ==
    IF n = 0 THEN {<<>>}
    ELSE {Append(q, v) : q \in SeqsOfLen(S, n - 1), v \in S}

SeqsUpTo(S, n) == UNION {SeqsOfLen(S, k) : k \in 0..n}

GeomRings == SeqsUpTo(GridVertices, MaxRingLen)

InitGeom ==
    /\ variant \in {"part_000", "part_001", "map-script"}
    /\ PageLoaded

MeasureArea ==
    \E points \in GeomRings :
        /\ calls = 0
        /\ calls' = 1
        /\ UNCHANGED <<areaSeen, perimeterSeen, fixVars, pageVars>>
        /\ \/ calculatePolygonArea(points)
           \/ calculatePolygonArea_001(points)
           \/ calculatePolygonArea_map(points)

MeasurePerimeter ==
    \E points \in GeomRings :
        /\ calls = 0
        /\ calls' = 1
        /\ UNCHANGED <<areaSeen, perimeterSeen, fixVars, pageVars>>
        /\ \/ calculatePolygonPerimeter(points)
           \/ calculatePolygonPerimeter_001(points)
           \/ calculatePolygonPerimeter_map(points)

\* updateAreaInfo asks for the aspect ratio of the ring being measured
MeasureAspectRatio ==
    \E points \in GeomRings :
        /\ calls = 0
        /\ calls' = 1
        /\ lastCall' = Call("aspectRatio", points, calculateAspectRatio(points), TRUE)
        /\ UNCHANGED <<variant, areaCalculationCache, perimeterCalculationCache,
                       areaSeen, perimeterSeen, fixVars, pageVars>>

\* updateAreaInfo asks for the bounding box of the ring being measured
MeasureBoundingBox ==
    \E points \in GeomRings :
        /\ calls = 0
        /\ calls' = 1
        /\ lastCall' = Call("boundingBox", points, calculateBoundingBox(points), TRUE)
        /\ UNCHANGED <<variant, areaCalculationCache, perimeterCalculationCache,
                       areaSeen, perimeterSeen, fixVars, pageVars>>

\* updateAreaInfo asks for the centroid of the ring being measured
MeasureCentroid ==
    \E points \in GeomRings :
        /\ calls = 0
        /\ calls' = 1
        /\ lastCall' = Call("centroid", points, calculateCentroid(points), TRUE)
        /\ UNCHANGED <<variant, areaCalculationCache, perimeterCalculationCache,
                       areaSeen, perimeterSeen, fixVars, pageVars>>

NextGeom ==
    \/ MeasureArea
    \/ MeasurePerimeter
    \/ MeasureAspectRatio
    \/ MeasureBoundingBox
    \/ MeasureCentroid

SpecGeom == InitGeom /\ [][NextGeom]_vars

\* ------------------------------------------------------------------------
\* Cache specification: a measuring session.  The user draws the rings
\* SessionRing(1), SessionRing(2), ... in this order and may measure the
\* newest ring or one of a few earlier rings again.
\* ------------------------------------------------------------------------

\* rings drawn beyond the capacity of the loaded script's caches
MaxExtraRings == 2

\* how many rings one of the two measurements may be ahead of the other
MaxLag == 2

\* the k-th ring of the session: a triangle one degree high at longitude k
SessionRing(k) ==
    <<<<Whole(0), Whole(0)>>, <<Whole(0), Whole(k)>>, <<Whole(1), Whole(k)>>>>

\* what the size test of the caching tail compares with
Capacity == IF variant = "part_001" THEN 100 ELSE 50

\* earlier rings the user comes back to
Revisited == {1, 26}

Candidates(seen) ==
    {k \in 1..(Capacity + MaxExtraRings) :
        \/ k = seen + 1
        \/ k = seen
        \/ k \in Revisited /\ k <= seen}

InitCache ==
    /\ variant \in {"part_000", "part_001"}
    /\ PageLoaded

SessionArea ==
    \E k \in Candidates(areaSeen) :
        /\ Max2(areaSeen, k) - perimeterSeen <= MaxLag
        /\ areaSeen' = Max2(areaSeen, k)
        /\ UNCHANGED <<calls, perimeterSeen, fixVars, pageVars>>
        /\ \/ calculatePolygonArea(SessionRing(k))
           \/ calculatePolygonArea_001(SessionRing(k))

SessionPerimeter ==
    \E k \in Candidates(perimeterSeen) :
        /\ Max2(perimeterSeen, k) - areaSeen <= MaxLag
        /\ perimeterSeen' = Max2(perimeterSeen, k)
        /\ UNCHANGED <<calls, areaSeen, fixVars, pageVars>>
        /\ \/ calculatePolygonPerimeter(SessionRing(k))
           \/ calculatePolygonPerimeter_001(SessionRing(k))

NextCache == SessionArea \/ SessionPerimeter

SpecCache == InitCache /\ [][NextCache]_vars

\* ------------------------------------------------------------------------
\* Upload specification: rings of uploaded files are validated
\* ------------------------------------------------------------------------

MaxUploadLen == 2

\* components an uploaded first vertex is made of
UploadValues ==
    {0, 45, -100, 500, 1500, 450000, 700000, 10000050,
     1000000000, -1000000000, 2000000000}

\* the vertices that follow the first one
LaterVertices ==
    {<<Whole(8), Whole(9)>>, <<Whole(700100), Whole(450200)>>,
     <<Whole(-1000000000), Whole(9000000)>>}

UploadRings ==
    {<<>>} \cup
    {<<<<Whole(x), Whole(y)>>>> \o rest :
        x \in UploadValues, y \in UploadValues,
        rest \in SeqsUpTo(LaterVertices, MaxUploadLen - 1)}

InitFix ==
    /\ variant = "part_000"
    /\ PageLoaded

\* one file is uploaded in a behaviour: what a validation yields depends
\* on its argument and on the map centre only
Upload ==
    \E ring \in UploadRings :
        /\ calls = 0
        /\ calls' = 1
        /\ validateAndFixCoordinates(ring)

NextFix == Upload \/ centerOnLocation

SpecFix == InitFix /\ [][NextFix]_vars

\* ------------------------------------------------------------------------
\* Display specification: one parsed file is handed to displayUploadedData
\* ------------------------------------------------------------------------

MaxDisplayLen == 3

\* first vertices of uploaded rings: near the view, far from it, with the
\* axes exchanged, out of range by a little, scaled by 10^7, projected,
\* and two that no transform of validateAndFixCoordinates accepts
DisplayFirst ==
    {<<9, 7>>, <<45, -100>>, <<100, 45>>, <<100, 200>>, <<700000, 450000>>,
     <<-1000000000, 450000>>, <<1000000000, 0>>, <<1000000000, 1000000000>>}

\* where the later vertices lie from the first one
DisplayDeltas == {<<1, 0>>, <<1, 1>>, <<100, 0>>, <<100, 20>>}

DisplayRings ==
    {<<>>} \cup
    {<<<<Whole(f[1]), Whole(f[2])>>>>
        \o [i \in 1..Len(ds) |-> <<Whole(f[1] + ds[i][1]), Whole(f[2] + ds[i][2])>>] :
        f \in DisplayFirst, ds \in SeqsUpTo(DisplayDeltas, MaxDisplayLen - 1)}

\* what a parser hands over: nothing, or a shape of one of the two tags
Parsed(tag, ring) ==
    CASE tag = "Polygon" -> Polygon(ring)
      [] tag = "LineString" -> LineString(ring)
      [] OTHER -> NoData

InitDisplay ==
    /\ variant = "part_000"
    /\ PageLoaded

\* one file is uploaded in a behaviour
UploadFile ==
    \E tag \in {"null", "Polygon", "LineString"} :
        \E ring \in IF tag = "null" THEN {<<>>} ELSE DisplayRings :
            /\ calls = 0
            /\ calls' = 1
            /\ displayUploadedData(Parsed(tag, ring))
            /\ UNCHANGED sessionVars

NextDisplay == UploadFile \/ centerOnLocation

SpecDisplay == InitDisplay /\ [][NextDisplay]_vars

\* ------------------------------------------------------------------------
\* Signature specification: rings that differ below and at the sixth
\* decimal are measured one after the other
\* ------------------------------------------------------------------------

MaxKeyCalls == 2

\* latitudes of the first vertex in units of 10^-7 degree
FineLatitudes == {0, 1, -1, 4, 6, 10, 14}

FineRing(n) == <<<<Dec(n, 10000000), Whole(0)>>, <<Whole(0), Whole(1)>>, <<Whole(1), Whole(1)>>>>

\* the fine rings, one of them also in another order and with a vertex more
FineRings ==
    {FineRing(n) : n \in FineLatitudes}
    \cup {<<FineRing(0)[1], FineRing(0)[3], FineRing(0)[2]>>,
          Append(FineRing(0), <<Whole(1), Whole(0)>>)}

InitKey ==
    /\ variant \in {"part_000", "part_001"}
    /\ PageLoaded

\* the ring being drawn changes and its area is asked for
RedrawArea ==
    \E points \in FineRings \ {lastCall.points} :
        /\ calls < MaxKeyCalls
        /\ calls' = calls + 1
        /\ UNCHANGED <<areaSeen, perimeterSeen, fixVars, pageVars>>
        /\ \/ calculatePolygonArea(points)
           \/ calculatePolygonArea_001(points)

\* the ring being drawn changes and its perimeter is asked for
RedrawPerimeter ==
    \E points \in FineRings \ {lastCall.points} :
        /\ calls < MaxKeyCalls
        /\ calls' = calls + 1
        /\ UNCHANGED <<areaSeen, perimeterSeen, fixVars, pageVars>>
        /\ \/ calculatePolygonPerimeter(points)
           \/ calculatePolygonPerimeter_001(points)

NextKey == RedrawArea \/ RedrawPerimeter

SpecKey == InitKey /\ [][NextKey]_vars

\* ------------------------------------------------------------------------
\* Decoder specification: one document is decoded
\* ------------------------------------------------------------------------

MaxTokens == 3

\* coordinate tokens: "7,-4", "7.5,4,0", "7", "a,7", "7,a", "4a,7",
\* "7,4,a" and ",7"
KmlTokens ==
    {<<"7", ",", "-", "4">>,
     <<"7", ".", "5", ",", "4", ",", "0">>,
     <<"7">>,
     <<"a", ",", "7">>,
     <<"7", ",", "a">>,
     <<"4", "a", ",", "7">>,
     <<"7", ",", "4", ",", "a">>,
     <<",", "7">>}

RECURSIVE Join(_)
\* the tokens of a list with one blank between them
Join(tokens) ==
    IF tokens = <<>> THEN <<>>
    ELSE IF Len(tokens) = 1 THEN tokens[1]
    ELSE tokens[1] \o <<" ">> \o Join(Tail(tokens))

\* texts of coordinates elements of up to n tokens
KmlTexts(n) == {Join(tokens) : tokens \in SeqsUpTo(KmlTokens, n)}

Placemark(geometry, coordText) == [geometry |-> geometry, coordinates |-> coordText]

\* a document that is not well formed, documents of one Placemark and
\* documents of two Placemarks of at most one token each
KmlDocs ==
    {[wellFormed |-> FALSE, placemarks |-> <<>>]} \cup
    {[wellFormed |-> TRUE, placemarks |-> <<Placemark(g, t)>>] :
        g \in {"Polygon", "LineString", "Point"}, t \in KmlTexts(MaxTokens)} \cup
    {[wellFormed |-> TRUE, placemarks |-> <<Placemark(g1, t1), Placemark(g2, t2)>>] :
        g1 \in {"Polygon", "LineString"}, g2 \in {"Polygon", "LineString"},
        t1 \in KmlTexts(1), t2 \in KmlTexts(1)}

\* the lat and lon attributes of a point: "7" and "-4.5", "a" and "7",
\* "7" and "a", "4a" and "7"
GpxPoints ==
    {[lat |-> <<"7">>, lon |-> <<"-", "4", ".", "5">>],
     [lat |-> <<"a">>, lon |-> <<"7">>],
     [lat |-> <<"7">>, lon |-> <<"a">>],
     [lat |-> <<"4", "a">>, lon |-> <<"7">>]}

GpxDocs ==
    {[wellFormed |-> FALSE, points |-> <<>>]} \cup
    {[wellFormed |-> TRUE, points |-> ps] : ps \in SeqsUpTo(GpxPoints, MaxTokens)}

InitParse ==
    /\ variant = "part_000"
    /\ PageLoaded

\* processFile reads a .kml file
ReadKML ==
    \E kmlDoc \in KmlDocs :
        /\ calls = 0
        /\ calls' = 1
        /\ lastCall' = Call("parseKML", kmlDoc, parseKML(kmlDoc), TRUE)
        /\ UNCHANGED <<variant, areaCalculationCache, perimeterCalculationCache,
                       areaSeen, perimeterSeen, fixVars, pageVars>>

\* processFile reads a .gpx file
ReadGPX ==
    \E gpxDoc \in GpxDocs :
        /\ calls = 0
        /\ calls' = 1
        /\ lastCall' = Call("parseGPX", gpxDoc, parseGPX(gpxDoc), TRUE)
        /\ UNCHANGED <<variant, areaCalculationCache, perimeterCalculationCache,
                       areaSeen, perimeterSeen, fixVars, pageVars>>

NextParse == ReadKML \/ ReadGPX

SpecParse == InitParse /\ [][NextParse]_vars

\* ------------------------------------------------------------------------
\* Drawing specification: a user draws, takes back, clears, uploads and
\* loads rings.  The events are spaced further apart than the limits of
\* the throttles, so every one of them is delivered.
\* ------------------------------------------------------------------------

MaxDrawLen == 3

MaxDrawTime == 5

DrawVertices == {<<Whole(0), Whole(0)>>, <<Whole(0), Whole(40)>>, <<Whole(30), Whole(0)>>}

\* the ring of a saved area and of an uploaded file
SavedRing == <<<<Whole(30), Whole(0)>>, <<Whole(0), Whole(40)>>, <<Whole(0), Whole(0)>>>>

InitDraw ==
    /\ variant = "part_000"
    /\ PageLoaded

\* the named user event happens at the next instant and its handler runs
Instant(name) ==
    /\ now < MaxDrawTime
    /\ now' = now + 1
    /\ lastEvent' = Event(name, TRUE)
    /\ UNCHANGED <<inThrottle, throttleTimer, lastRun>>

PressDraw == Instant("startDrawing") /\ startDrawing

\* keydown of Escape: "if (isDrawing) stopDrawing()"
PressEscape == isDrawing /\ Instant("Escape") /\ stopDrawing

Click ==
    \E latlng \in DrawVertices :
        /\ isDrawing => Len(polygonPoints) < MaxDrawLen
        /\ Instant("click")
        /\ onMapClick(latlng)

RightClick == Instant("contextmenu") /\ onMapRightClick

DoubleClick == Instant("dblclick") /\ onMapDoubleClick

PressClear == Instant("clearMap") /\ clearMap

UploadPolygon ==
    \E n \in {2, 3} :
        /\ Instant("upload")
        /\ displayUploadedData(Polygon(SubSeq(SavedRing, 1, n)))
        /\ UNCHANGED <<calls, userVars, uploadVars>>

LoadSaved == Instant("loadAreaData") /\ loadAreaData(SavedArea(SavedRing))

NextDraw ==
    \/ PressDraw
    \/ PressEscape
    \/ Click
    \/ RightClick
    \/ DoubleClick
    \/ PressClear
    \/ UploadPolygon
    \/ LoadSaved

SpecDraw == InitDraw /\ [][NextDraw]_vars

\* ------------------------------------------------------------------------
\* Throttle specification: clicks arrive at any time, the timer of the
\* throttle runs when it is due or later
\* ------------------------------------------------------------------------

MaxThrottleTime == 5

InitThrottle ==
    /\ variant = "part_000"
    /\ PageLoaded

\* 50 ms pass
Tick ==
    /\ now < MaxThrottleTime
    /\ now' = now + 1
    /\ UNCHANGED <<geomVars, fixVars, drawVars, lastEvent, userVars, uploadVars,
                   inThrottle, throttleTimer, lastRun>>

\* the map is clicked
MapClicked ==
    \E latlng \in DrawVertices :
        /\ isDrawing => Len(polygonPoints) < MaxDrawLen
        /\ throttle_onMapClick(latlng)

\* the Draw Area button is pressed
DrawPressed ==
    /\ startDrawing
    /\ lastEvent' = Event("startDrawing", TRUE)
    /\ UNCHANGED throttleVars

NextThrottle == Tick \/ MapClicked \/ throttleTimeout \/ DrawPressed

SpecThrottle == InitThrottle /\ [][NextThrottle]_vars

\* ------------------------------------------------------------------------
\* Request specification: a visitor loads saved areas, logs in and out and
\* presses Submit Request
\* ------------------------------------------------------------------------

MaxRequests == 2

\* a saved triangle with sides of 0.01 degree, below 1 km^2
SmallRing == <<<<Whole(0), Whole(0)>>, <<Dec(1, 100), Whole(0)>>, <<Whole(0), Dec(1, 100)>>>>

InitSubmit ==
    /\ variant = "part_000"
    /\ PageLoaded

\* initializeAuth at DOMContentLoaded, before any user event
AuthInitialized ==
    \E userData \in {"absent", "stored"} :
        /\ lastEvent = NoEvent
        /\ lastEvent' = Event("DOMContentLoaded", TRUE)
        /\ loadUserFromStorage(userData)
        /\ UNCHANGED throttleVars

\* an event of the page once it is initialised
PageEvent(name) ==
    /\ lastEvent # NoEvent
    /\ lastEvent' = Event(name, TRUE)
    /\ UNCHANGED throttleVars

LoggedIn == PageEvent("login") /\ currentUser # UserObject /\ handleLogin

LoggedOut == PageEvent("logout") /\ currentUser = UserObject /\ logout

SavedLoaded ==
    \E ring \in {SavedRing, SmallRing} :
        /\ PageEvent("loadAreaData")
        /\ polygonPoints # ring
        /\ loadAreaData(SavedArea(ring))

SubmitPressed ==
    /\ PageEvent("submitRequest")
    /\ submissions + areaCount < MaxRequests
    /\ submitRequest

RequestRecorded ==
    /\ submissionTimeout
    /\ UNCHANGED <<lastEvent, throttleVars>>

NextSubmit ==
    \/ AuthInitialized
    \/ LoggedIn
    \/ LoggedOut
    \/ SavedLoaded
    \/ SubmitPressed
    \/ RequestRecorded

SpecSubmit == InitSubmit /\ [][NextSubmit]_vars

\* ------------------------------------------------------------------------
\* Files specification: files are dropped on the upload area and their
\* reads complete in any order
\* ------------------------------------------------------------------------

MaxFiles == 3

InitFiles ==
    /\ variant = "part_000"
    /\ PageLoaded

\* what a file that reads and parses well holds
FileData == {Polygon(SavedRing), LineString(SubSeq(SavedRing, 1, 2))}

FilesDropped ==
    \E n \in 1..MaxFiles :
        /\ totalFiles = 0
        /\ handleFiles(n)
        /\ lastEvent' = Event("drop", TRUE)
        /\ UNCHANGED <<calls, userVars, throttleVars>>

FileRead ==
    \E i \in 1..totalFiles, kind \in FileKinds :
        \E data \in IF kind = "data" THEN FileData ELSE {NoData} :
            /\ fileRead(i, kind, data)
            /\ UNCHANGED <<calls, lastEvent, userVars, throttleVars>>

ProgressRemoved ==
    /\ progressTimeout
    /\ UNCHANGED <<calls, lastEvent, userVars, throttleVars>>

NextFiles == FilesDropped \/ FileRead \/ ProgressRemoved

SpecFiles == InitFiles /\ [][NextFiles]_vars

\* ------------------------------------------------------------------------
\* Properties
\* ------------------------------------------------------------------------

Rotate(points, k) ==
    [i \in 1..Len(points) |-> points[((i + k - 1) % Len(points)) + 1]]

Reverse(points) == [i \in 1..Len(points) |-> points[Len(points) + 1 - i]]

\* the perimeter the loaded script computes for a ring it has not cached
FreshPerimeter(points) ==
    IF variant = "map-script" THEN PlainPerimeterKm(points)
    ELSE HaversinePerimeterKm(points)

\* C1: a freshly computed perimeter of a ring of 2 or more vertices equals
\* the freshly computed perimeter of every cyclic rotation of the ring and
\* of its reversal.
C1_PerimeterRotationReversal ==
    (lastCall.fn = "perimeter" /\ lastCall.computed /\ Len(lastCall.points) >= 2)
    => /\ \A k \in 0..(Len(lastCall.points) - 1) :
              FreshPerimeter(Rotate(lastCall.points, k)) = lastCall.value
       /\ FreshPerimeter(Reverse(lastCall.points)) = lastCall.value

C3_SecondCallFromCache ==
    [][(/\ lastCall.fn = "area"
        /\ Len(lastCall.points) >= 3
        /\ lastCall'.fn = "area"
        /\ lastCall'.points = lastCall.points)
       => (lastCall'.value = lastCall.value /\ ~lastCall'.computed)]_vars

\* C4: in part_000 a computing call that finds its cache at capacity
\* leaves the 25 last-inserted entries in their order followed by the new
\* entry, and a call that computes nothing leaves the cache as it is.
C4_EvictOldestHalf ==
    [][(variant = "part_000") =>
        /\ (lastCall'.fn = "area" /\ lastCall'.computed /\ Len(areaCalculationCache) = 50)
           => areaCalculationCache' =
                 Append(SubSeq(areaCalculationCache, 26, 50),
                        <<cacheKey(lastCall'.points), lastCall'.value>>)
        /\ (lastCall'.fn = "area" /\ ~lastCall'.computed)
           => areaCalculationCache' = areaCalculationCache
        /\ (lastCall'.fn = "perimeter" /\ lastCall'.computed
              /\ Len(perimeterCalculationCache) = 50)
           => perimeterCalculationCache' =
                 Append(SubSeq(perimeterCalculationCache, 26, 50),
                        <<cacheKey(lastCall'.points), lastCall'.value>>)
        /\ (lastCall'.fn = "perimeter" /\ ~lastCall'.computed)
           => perimeterCalculationCache' = perimeterCalculationCache]_vars

\* the first ring is measured again (a hit) and then evicted with the
\* older half: the cache starts at the 26th ring
C4_Witness ==
    /\ variant = "part_000"
    /\ areaSeen = 51
    /\ Len(areaCalculationCache) = 26
    /\ areaCalculationCache[1][1] = cacheKey(SessionRing(26))
    /\ areaCalculationCache[26][1] = cacheKey(SessionRing(51))

\* C5: neither cache ever holds more entries than its capacity.
C5_CacheBounded ==
    /\ Len(areaCalculationCache) <= Capacity
    /\ Len(perimeterCalculationCache) <= Capacity

\* more rings than the capacity have been measured by both functions
C5_Witness ==
    /\ areaSeen > Capacity
    /\ perimeterSeen > Capacity
    /\ lastCall.computed

\* a validation has run on a non-empty ring
Validation == calls = 1 /\ Len(coordinates) > 0

\* the first vertex is out of range, also with its components exchanged,
\* and one component exceeds 1000: validateAndFixCoordinates takes the
\* large-magnitude branch
InLargeBranch(coords) ==
    /\ ~InWGS84Range(coords[1])
    /\ ~InWGS84Range(<<coords[1][2], coords[1][1]>>)
    /\ AbsGt(coords[1][1], 1000) \/ AbsGt(coords[1][2], 1000)

\* what the named transform function returns for a ring
Apply(name, coords) ==
    CASE name = "tryConvertUTMCoordinates" -> tryConvertUTMCoordinates(coords)
      [] name = "tryConvertMinnaDatum" -> tryConvertMinnaDatum(coords)
      [] name = "tryGenericCoordinateTransform" -> tryGenericCoordinateTransform(coords)
      [] OTHER -> Transform(name, coords)

\* the order of the transforms as the claim C9 has it
ClaimedOrder ==
    <<"tryScalingTransform", "tryMixedTransform", "tryOffsetTransform",
      "tryConvertUTMCoordinates", "tryConvertMinnaDatum", "tryGenericCoordinateTransform">>

\* the order of the transforms in the code
CodeOrder ==
    <<"tryScalingTransform", "trySwapTransform", "tryOffsetTransform", "tryMixedTransform",
      "tryConvertUTMCoordinates", "tryConvertMinnaDatum", "tryGenericCoordinateTransform">>

\* the transforms were attempted in the given order, every attempt but the
\* last one failed, and the result is that of the last attempt: a ring if
\* it succeeded, null if the whole order was tried in vain
FirstSuccessIn(order) ==
    LET n == Len(attempted)
    IN  /\ n >= 1
        /\ n <= Len(order)
        /\ attempted = SubSeq(order, 1, n)
        /\ \A i \in 1..(n - 1) : ~Apply(order[i], coordinates).ok
        /\ validated = Apply(order[n], coordinates)
        /\ ~validated.ok => n = Len(order)

\* C6: a ring whose first vertex lies in the regional-datum rectangle comes
\* back with its first vertex in WGS84 range and the correction is
\* reported as the Minna datum conversion.
C6_MinnaRectangleTagged ==
    (Validation /\ InMinnaBounds(coordinates[1]))
    => /\ validated.ok
       /\ InWGS84Range(validated.ring[1])
       /\ notifications = <<Note("Minna Datum to WGS84", "success")>>

\* C7: a ring whose first vertex is in WGS84 range comes back unchanged,
\* no transform is attempted and nothing but the far-from-view warning can
\* be shown, whatever the later vertices are.
C7_PlausibleUnchanged ==
    (Validation /\ InWGS84Range(coordinates[1]))
    => /\ validated = Some(coordinates)
       /\ attempted = <<>>
       /\ \A i \in 1..Len(notifications) :
              notifications[i] = Note("far from the current map view", "warning")

\* a ring with a plausible first and an implausible second vertex has
\* been validated
C7_Witness ==
    /\ Validation
    /\ InWGS84Range(coordinates[1])
    /\ Len(coordinates) >= 2
    /\ ~InWGS84Range(coordinates[2])
    /\ validated.ok

\* C8: when the first vertex is out of range but in range with its two
\* components exchanged, the result is the ring with the components of
\* every vertex exchanged, the swap notification is the only one, and no
\* transform function is invoked.
C8_SwapAllVertices ==
    (Validation /\ ~InWGS84Range(coordinates[1])
       /\ InWGS84Range(<<coordinates[1][2], coordinates[1][1]>>))
    => /\ validated = Some(Swapped(coordinates))
       /\ notifications = <<Note("lat/lng were swapped", "info")>>
       /\ attempted = <<>>

\* a ring of two vertices has been repaired by the swap
C8_Witness ==
    /\ Validation
    /\ Len(coordinates) >= 2
    /\ ~InWGS84Range(coordinates[1])
    /\ notifications = <<Note("lat/lng were swapped", "info")>>
    /\ validated.ring[2] = <<coordinates[2][2], coordinates[2][1]>>

\* C9 as claimed: in the large-magnitude branch the transforms run in the
\* order scaling, scale+swap, offset, UTM, regional datum, generic, and the
\* first success is returned.
C9_ClaimedOrder ==
    (Validation /\ InLargeBranch(coordinates)) => FirstSuccessIn(ClaimedOrder)

\* C9 as amended: in the large-magnitude branch the transforms run in the
\* order scaling, plain swap, offset, scale+swap, UTM, regional datum,
\* generic; the result is the output of the first one that accepts the
\* first vertex and none runs after it.
C9_CodeOrder ==
    (Validation /\ InLargeBranch(coordinates)) => FirstSuccessIn(CodeOrder)

\* the UTM inverse succeeded after the four transforms before it failed
C9_Witness ==
    /\ Validation
    /\ InLargeBranch(coordinates)
    /\ Len(attempted) = 5
    /\ validated.ok
    /\ notifications = <<Note("UTM to WGS84", "success")>>

\* C10: null is returned exactly when the large-magnitude branch is taken
\* and every transform rejects the ring; an error notification is then
\* shown and the caller's array still holds the uploaded ring.
C10_NullOnlyWhenAllFail ==
    calls = 1 =>
       /\ validated = Null <=>
             /\ Len(coordinates) > 0
             /\ InLargeBranch(coordinates)
             /\ \A i \in 1..Len(CodeOrder) : ~Apply(CodeOrder[i], coordinates).ok
       /\ validated = Null =>
             /\ \E i \in 1..Len(notifications) : notifications[i][2] = "error"
             /\ coordinates \in UploadRings

\* every transform has been attempted and null was returned
C10_Witness ==
    /\ Validation
    /\ validated = Null
    /\ Len(attempted) = 7

\* a non-empty ring has been handed to displayUploadedData
Uploaded == calls = 1 /\ Len(coordinates) > 0 /\ trace # <<>>

\* the last step or notification of the upload
LastShown == trace[Len(trace)]

\* C11: validateAndFixCoordinates never returns a ring whose first vertex
\* is out of the WGS84 range, displayUploadedData never installs such a
\* ring, and an implausible ring that neither the validation nor the last
\* resort changed ends in the cannot-display error.
C11_ImplausibleNeverShown ==
    Uploaded =>
       /\ validated.ok => InWGS84Range(validated.ring[1])
       /\ polygonPoints # <<>> => InWGS84Range(polygonPoints[1])
       /\ (/\ ~InWGS84Range(coordinates[1])
           /\ validated.ok => validated.ring = coordinates
           /\ ~aggressive.res.ok)
          => LastShown = Note("Cannot display uploaded data", "error")

\* the ring the upload went on with after validation and last resort
FinalRing ==
    IF validated.ok THEN validated.ring
    ELSE IF aggressive.res.ok THEN aggressive.res.ring
    ELSE coordinates

\* the heuristic that produced the ring: the axis swap of the validation,
\* the last transform function it invoked, or the step of the last resort
Producer ==
    IF validated.ok
    THEN IF attempted = <<>> THEN "swap" ELSE attempted[Len(attempted)]
    ELSE aggressive.step

\* the notification that names a heuristic
SignalOf(heuristic) ==
    CASE heuristic = "swap" -> Note("lat/lng were swapped", "info")
      [] heuristic = "tryScalingTransform" -> Note("simple scaling", "success")
      [] heuristic = "tryConvertUTMCoordinates" -> Note("UTM to WGS84", "success")
      [] heuristic = "tryConvertMinnaDatum" -> Note("Minna Datum to WGS84", "success")
      [] heuristic = "tryGenericCoordinateTransform" -> Note("converted to WGS84", "success")
      [] heuristic = "preserving relative shape" ->
             Note("corrected using aggressive method", "warning")
      [] OTHER -> Note("none", "none")

\* the notifications that report a correction
IsCorrectionSignal(note) ==
    note \in {Note("lat/lng were swapped", "info"), Note("simple scaling", "success"),
              Note("UTM to WGS84", "success"), Note("Minna Datum to WGS84", "success"),
              Note("converted to WGS84", "success"),
              Note("corrected using aggressive method", "warning")}

\* C12: when the ring that goes on differs from the uploaded one, exactly
\* one correction is reported in the upload and it is the one of the
\* heuristic that produced the ring.
C12_ChangeSignalsItsHeuristic ==
    (Uploaded /\ FinalRing # coordinates)
    => SelectSeq(trace, IsCorrectionSignal) = <<SignalOf(Producer)>>

\* C13: a call of calculatePolygonArea with fewer than 3 vertices, or of
\* calculatePolygonPerimeter with fewer than 2, returns 0 and leaves both
\* caches as they were.
C13_TooFewVerticesGiveZero ==
    [][(/\ lastCall'.tick # lastCall.tick
        /\ \/ lastCall'.fn = "area" /\ Len(lastCall'.points) < 3
           \/ lastCall'.fn = "perimeter" /\ Len(lastCall'.points) < 2)
       => /\ lastCall'.value = 0
          /\ areaCalculationCache' = areaCalculationCache
          /\ perimeterCalculationCache' = perimeterCalculationCache]_vars

\* the cached calculatePolygonArea has been called with two vertices
C13_Witness ==
    /\ variant = "part_000"
    /\ lastCall.fn = "area"
    /\ Len(lastCall.points) = 2
    /\ lastCall.value = 0
    /\ areaCalculationCache = <<>>

\* C14: calculateAspectRatio returns 0 for the empty ring and for every
\* ring whose vertices share one latitude, and the quotient of the width
\* and the height of the bounding box in metres otherwise.
C14_AspectRatioZeroWhenFlat ==
    lastCall.fn = "aspectRatio"
    => LET bbox == calculateBoundingBox(lastCall.points)
       IN  IF ~bbox.ok \/ bbox.height = 0
           THEN lastCall.value = Finite(0)
           ELSE lastCall.value = JsDivide(WidthM(bbox), HeightM(bbox))

\* the vertices a decoder's result holds
Decoded == Extracted(lastCall.value)

\* a text is a number as a whole: an optional sign, then digits with at
\* most one point among them
WholeNumber(text) ==
    LET body == IF Len(text) >= 1 /\ text[1] \in {"-", "+"} THEN Tail(text) ELSE text
    IN  /\ \A i \in 1..Len(body) : IsDigit(body[i]) \/ body[i] = "."
        /\ Cardinality({i \in 1..Len(body) : body[i] = "."}) <= 1
        /\ \E i \in 1..Len(body) : IsDigit(body[i])

\* a text begins with a number
BeginsWithNumber(text) == \E k \in 1..Len(text) : WholeNumber(SubSeq(text, 1, k))

\* the number a text begins with
LeadingNumber(text) ==
    LET k == CHOOSE k \in 1..Len(text) :
                 /\ WholeNumber(SubSeq(text, 1, k))
                 /\ \A j \in (k + 1)..Len(text) : ~WholeNumber(SubSeq(text, 1, j))
    IN  parseFloat(SubSeq(text, 1, k)).n

\* the vertices that the tokens of a coordinates text stand for when a
\* token counts if it has two parts or more and its first two are numeric
VerticesOfText(coordText, numeric(_)) ==
    LET tokens == SplitWhitespace(coordText)
    IN  Concat([k \in 1..Len(tokens) |->
            LET parts == Split(tokens[k], ",")
            IN  IF Len(parts) >= 2 /\ numeric(parts[1]) /\ numeric(parts[2])
                THEN <<<<LeadingNumber(parts[2]), LeadingNumber(parts[1])>>>>
                ELSE <<>>])

\* the same for the Placemarks of a document, in document order
VerticesOfKml(kmlDoc, numeric(_)) ==
    Concat([k \in 1..Len(kmlDoc.placemarks) |->
        IF kmlDoc.placemarks[k].geometry \in {"Polygon", "LineString"}
        THEN VerticesOfText(kmlDoc.placemarks[k].coordinates, numeric)
        ELSE <<>>])

\* the points of a GPX document whose two attributes begin with a number
VerticesOfGpx(gpxDoc) ==
    Concat([k \in 1..Len(gpxDoc.points) |->
        IF BeginsWithNumber(gpxDoc.points[k].lat) /\ BeginsWithNumber(gpxDoc.points[k].lon)
        THEN <<<<LeadingNumber(gpxDoc.points[k].lat), LeadingNumber(gpxDoc.points[k].lon)>>>>
        ELSE <<>>])

\* the vertices the document of the last decoder call stands for
VerticesOfDocument ==
    IF lastCall.fn = "parseKML" THEN VerticesOfKml(lastCall.points, BeginsWithNumber)
    ELSE VerticesOfGpx(lastCall.points)

\* C15: a decoder returns a Polygon of one ring with all the decoded
\* vertices exactly when there are 3 or more of them, a LineString of
\* them when there are 1 or 2, and null when there is none or the
\* document is not well formed.
C15_ShapeByVertexCount ==
    lastCall.fn \in {"parseKML", "parseGPX"} =>
        IF ~lastCall.points.wellFormed THEN lastCall.value.type = "null"
        ELSE /\ lastCall.value.type = "Polygon" <=> Len(VerticesOfDocument) >= 3
             /\ lastCall.value.type = "LineString" <=> Len(VerticesOfDocument) \in {1, 2}
             /\ lastCall.value.type = "null" <=> Len(VerticesOfDocument) = 0
             /\ lastCall.value.type = "Polygon" =>
                    /\ Len(lastCall.value.coordinates) = 1
                    /\ lastCall.value.coordinates[1] = VerticesOfDocument
             /\ lastCall.value.type = "LineString" =>
                    lastCall.value.coordinates = VerticesOfDocument

\* a KML text of three tokens has been decoded to a Polygon
C15_Witness ==
    /\ lastCall.fn = "parseKML"
    /\ lastCall.value.type = "Polygon"
    /\ Len(lastCall.value.coordinates[1]) = 3

Round6(x) ==
    LET m == (2 * Abs(Num(x)) * 1000000 + Den(x)) \div (2 * Den(x))
    IN  IF Num(x) < 0 THEN -m ELSE m

\* two rings agree after every component is rounded to 6 decimals
SameRounded(a, b) ==
    /\ Len(a) = Len(b)
    /\ \A i \in 1..Len(a) : \A axis \in {1, 2} : Round6(a[i][axis]) = Round6(b[i][axis])

\* two rings agree in the text toFixed(6) writes for every component
SameText(a, b) ==
    /\ Len(a) = Len(b)
    /\ \A i \in 1..Len(a) : \A axis \in {1, 2} : toFixed6(a[i][axis]) = toFixed6(b[i][axis])

\* the same function is called a second time in a row
CalledAgain ==
    /\ lastCall.fn \in {"area", "perimeter"}
    /\ lastCall'.fn = lastCall.fn
    /\ lastCall'.tick # lastCall.tick

\* C17 as claimed: a call that follows a call with a ring that agrees
\* with its own after rounding to 6 decimals is answered from the cache
\* with the same value, and rings that do not agree after rounding have
\* different keys.
C17_RoundedRingsShareEntry ==
    [][CalledAgain =>
          IF SameRounded(lastCall.points, lastCall'.points)
          THEN ~lastCall'.computed /\ lastCall'.value = lastCall.value
          ELSE cacheKey(lastCall.points) # cacheKey(lastCall'.points)]_vars

\* C17 as amended: the same with the agreement taken on the toFixed(6)
\* text of every component, sign included; rings whose texts differ
\* have different keys and the second one is computed when the cache
\* holds the first one only.
C17_SameTextSharesEntry ==
    [][CalledAgain =>
          IF SameText(lastCall.points, lastCall'.points)
          THEN ~lastCall'.computed /\ lastCall'.value = lastCall.value
          ELSE /\ cacheKey(lastCall.points) # cacheKey(lastCall'.points)
               /\ calls = 1 => lastCall'.computed]_vars

\* a ring has been answered from the entry of another ring that differs
\* from it below the sixth decimal
C17_Witness ==
    /\ calls = 2
    /\ lastCall.fn = "area"
    /\ ~lastCall.computed
    /\ Len(areaCalculationCache) = 1
    /\ lastCall.points[1][1] \in {Dec(4, 10000000), Dec(14, 10000000)}

\* C18: a call of calculatePolygonArea leaves the perimeter cache as it
\* was and a call of calculatePolygonPerimeter leaves the area cache as
\* it was, whether the call hits, misses or evicts.
C18_CachesIndependent ==
    [][lastCall'.tick # lastCall.tick =>
          /\ lastCall'.fn = "area" => perimeterCalculationCache' = perimeterCalculationCache
          /\ lastCall'.fn = "perimeter" => areaCalculationCache' = areaCalculationCache]_vars

\* an area call has evicted from the area cache while the perimeter
\* cache is full
C18_Witness ==
    /\ variant = "part_000"
    /\ lastCall.fn = "area"
    /\ lastCall.computed
    /\ Len(areaCalculationCache) = 26
    /\ Len(perimeterCalculationCache) = 50

\* a comes before b in the steps and notifications of the upload
Before(a, b) ==
    \E i \in 1..Len(trace) : \E j \in (i + 1)..Len(trace) : trace[i] = a /\ trace[j] = b

Shown(a) == \E i \in 1..Len(trace) : trace[i] = a

\* C19: tryAggressiveCorrection runs exactly when validateAndFixCoordinates
\* returned null, after it and on the same ring; when its ring is installed
\* the warning comes before the assignment of polygonPoints and before the
\* measurements; when it returns null nothing is installed and the upload
\* ends with the cannot-display error.
C19_LastResortAfterNullWithWarning ==
    Uploaded =>
       /\ aggressive.called <=> ~validated.ok
       /\ Shown(Step("tryAggressiveCorrection")) <=> aggressive.called
       /\ aggressive.called =>
             /\ aggressive = tryAggressiveCorrection(coordinates)
             /\ Before(Step("validateAndFixCoordinates"), Step("tryAggressiveCorrection"))
       /\ (aggressive.called /\ aggressive.res.ok /\ polygonPoints # <<>>) =>
             /\ polygonPoints = aggressive.res.ring
             /\ Before(Note("corrected using aggressive method", "warning"),
                       Step("polygonPoints"))
             /\ Before(Note("corrected using aggressive method", "warning"),
                       Step("calculatePolygonArea"))
             /\ Before(Note("corrected using aggressive method", "warning"),
                       Step("calculatePolygonPerimeter"))
       /\ (aggressive.called /\ ~aggressive.res.ok) =>
             /\ polygonPoints = <<>>
             /\ LastShown = Note("Cannot display uploaded data", "error")

\* the ring of the last resort has been installed and measured
C19_Witness ==
    /\ Uploaded
    /\ aggressive.called
    /\ aggressive.step = "preserving relative shape"
    /\ polygonPoints = aggressive.res.ring
    /\ Len(polygonPoints) >= 3
    /\ lastCall.fn = "perimeter"
    /\ lastCall.points = polygonPoints

\* the extent of a ring along an axis, in the units of its numerators
Extent(ring, axis) ==
    SetMax({Num(ring[i][axis]) : i \in 1..Len(ring)})
    - SetMin({Num(ring[i][axis]) : i \in 1..Len(ring)})

\* the sum over the vertices of the distance from 8.0 along an axis, in
\* units of 1/10000 degree
OffAnchor(ring, axis) ==
    SumTo([i \in 1..Len(ring) |-> Num(ring[i][axis]) - 80000], Len(ring))

\* the last resort relocated the uploaded ring
Relocated == Uploaded /\ aggressive.called /\ aggressive.step = "preserving relative shape"

\* the relocated ring spans at most 10 degrees on each axis and its mean
\* is (8.0, 8.0), up to the rounding of the last digit
RelocatedInSpanAtAnchor ==
    Relocated =>
       /\ \A axis \in {1, 2} : Extent(aggressive.res.ring, axis) <= 100000 + 1
       /\ \A axis \in {1, 2} :
              Abs(OffAnchor(aggressive.res.ring, axis)) <= Len(coordinates)

\* C20: the relocated ring spans at most 10 degrees on each axis, has its
\* mean at (8.0, 8.0) and, both axes being multiplied by one factor, keeps
\* the ratio of the x-extent to the y-extent of the uploaded ring (x is
\* the first component of the upload and the longitude of the result).
C20_RelocationKeepsRatio ==
    /\ RelocatedInSpanAtAnchor
    /\ Relocated =>
          Abs(Extent(aggressive.res.ring, 2) * Extent(coordinates, 2)
              - Extent(aggressive.res.ring, 1) * Extent(coordinates, 1))
          <= 2 * (Extent(coordinates, 1) + Extent(coordinates, 2))

\* every vertex of the ring is within |lat| <= 90 and |lng| <= 180
AllInRange(ring) == \A i \in 1..Len(ring) : InWGS84Range(ring[i])

\* the vertex mean of the ring lies more than 20 degrees from the centre
CentroidFar(ring, center) ==
    FarFromView(<<calculateCentroid(ring).lat, calculateCentroid(ring).lng>>, center)

\* C21: a validation of a ring whose vertices are all plausible shows the
\* far-from-view warning exactly when the centroid of the ring lies more
\* than 20 degrees from the map centre of that moment, and returns the
\* ring unchanged.
C21_WarnsWhenCentroidFar ==
    [][(calls = 0 /\ calls' = 1 /\ Len(coordinates') > 0 /\ AllInRange(coordinates')) =>
          /\ validated' = Some(coordinates')
          /\ (\E k \in 1..Len(notifications') :
                  notifications'[k] = Note("far from the current map view", "warning"))
             <=> CentroidFar(coordinates', mapCenter)]_vars

\* lo and hi are the least and the greatest component of the vertices
\* along the axis, in centidegrees
Extremes(points, axis, lo, hi) ==
    /\ \A i \in 1..Len(points) : lo <= Centi(points[i][axis]) /\ Centi(points[i][axis]) <= hi
    /\ \E i \in 1..Len(points) : Centi(points[i][axis]) = lo
    /\ \E i \in 1..Len(points) : Centi(points[i][axis]) = hi

\* a fraction lies between two numbers of centidegrees, ends included
Between(lo, x, hi) == lo * Den(x) <= Num(x) * 100 /\ Num(x) * 100 <= hi * Den(x)

\* the point lies inside the bounding box of the ring
InsideBox(centroid, points) ==
    /\ Between(calculateBoundingBox(points).minLat, centroid.lat,
               calculateBoundingBox(points).maxLat)
    /\ Between(calculateBoundingBox(points).minLng, centroid.lng,
               calculateBoundingBox(points).maxLng)

TenMillionRejected(coords) == ~InWGS84Range(Scaled(coords, 10000000)[1])

\* |x| > 9 * 10^8 or |y| > 1.8 * 10^9 for the first vertex (x, y)
VeryLarge(coords) == AbsGt(coords[1][1], 900000000) \/ AbsGt(coords[1][2], 1800000000)

\* C25: in the large-magnitude branch the scaling transform, when it
\* succeeds, divides by 10^7; division by 10^7 is rejected exactly for
\* |x| > 9 * 10^8 or |y| > 1.8 * 10^9, and then the scaling, offset, mixed
\* and generic transforms all return null; so the result is the ring
\* divided by 10^7, the result of one of the two inverses, or null, and
\* the inverses are attempted for very large first vertices only.
C25_OnlyTenMillion ==
    (Validation /\ InLargeBranch(coordinates)) =>
       /\ tryScalingTransform(coordinates).ok
             => tryScalingTransform(coordinates) = Some(Scaled(coordinates, 10000000))
       /\ TenMillionRejected(coordinates) <=> VeryLarge(coordinates)
       /\ TenMillionRejected(coordinates) =>
             /\ ~tryScalingTransform(coordinates).ok
             /\ ~trySwapTransform(coordinates).ok
             /\ ~tryOffsetTransform(coordinates).ok
             /\ ~tryMixedTransform(coordinates).ok
             /\ ~tryGenericCoordinateTransform(coordinates).ok
       /\ ~TenMillionRejected(coordinates)
             => /\ validated = Some(Scaled(coordinates, 10000000))
                /\ attempted = <<"tryScalingTransform">>
       /\ TenMillionRejected(coordinates)
             => /\ Len(attempted) >= 5
                /\ validated \in {tryConvertUTMCoordinates(coordinates),
                                  tryConvertMinnaDatum(coordinates), Null}

\* division by 10^7 was selected for a ring that division by 10^4 would
\* have brought into range as well
C25_Witness ==
    /\ Validation
    /\ InLargeBranch(coordinates)
    /\ Len(coordinates) >= 2
    /\ InWGS84Range(Scaled(coordinates, 10000)[1])
    /\ validated = Some(Scaled(coordinates, 10000000))

\* C30: when a validation returns a ring, the array that was passed still
\* holds the uploaded vertices (a repaired ring is a new array and the
\* argument keeps its implausible first vertex), and a validation of the
\* returned ring returns it unchanged, whatever the map centre is.
C30_IdempotentAndArgumentKept ==
    (Validation /\ validated.ok) =>
       /\ coordinates \in UploadRings
       /\ validated.ring # coordinates => ~InWGS84Range(coordinates[1])
       /\ \A center \in MapCenters :
              Validate(validated.ring, center).result = validated

\* a ring of two vertices has come back changed by a transform
C30_Witness ==
    /\ Validation
    /\ validated.ok
    /\ Len(coordinates) = 2
    /\ validated.ring # coordinates
    /\ attempted # <<>>
    /\ InWGS84Range(validated.ring[1])

\* C23: after every step that changes polygonPoints the displayed area
\* (totalArea) is what calculatePolygonArea returns for the new ring when
\* it has 3 vertices or more, and 0 otherwise.
C23_AreaFollowsRing ==
    [][polygonPoints' # polygonPoints
         => totalArea' = IF Len(polygonPoints') >= 3 THEN AreaValue(polygonPoints)' ELSE 0]_vars

\* C24: clearMap leaves no vertices and no polygon; startDrawing called
\* while not drawing turns drawing on and leaves no vertices and no
\* polygon; startDrawing called while drawing only turns drawing off and
\* keeps the vertices and the polygon.
C24_RingDiscarded ==
    [][/\ lastEvent'.event = "clearMap"
            => polygonPoints' = <<>> /\ currentPolygon' = Null
       /\ (lastEvent'.event = "startDrawing" /\ ~isDrawing)
            => isDrawing' /\ polygonPoints' = <<>> /\ currentPolygon' = Null
       /\ (lastEvent'.event = "startDrawing" /\ isDrawing)
            => ~isDrawing' /\ UNCHANGED <<polygonPoints, currentPolygon>>]_vars

\* a new drawing has begun and discarded a ring that had been measured
C24_Witness ==
    /\ lastEvent.event = "startDrawing"
    /\ isDrawing
    /\ polygonPoints = <<>>
    /\ currentPolygon = Null
    /\ totalArea > 0

\* C28: currentPolygon is non-null only if polygonPoints has 3 vertices or
\* more, and its vertices are those of polygonPoints.
C28_PolygonMatchesRing ==
    currentPolygon.ok => Len(polygonPoints) >= 3 /\ currentPolygon.ring = polygonPoints

\* the step is the arrival of a click at the throttled handler
ClickArrives == lastEvent' # lastEvent /\ lastEvent'.event = "click"

\* C29: the throttled onMapClick runs on the first click, and later runs
\* exactly on the clicks that arrive when the window of the previous run
\* is over, so never twice within 100 ms; a click inside the window is
\* discarded and nothing delivers it later.  A click that runs while
\* drawing appends exactly its vertex, a discarded click and a click while
\* not drawing leave polygonPoints unchanged.
C29_ThrottledClicks ==
    [][/\ ClickArrives =>
            /\ lastEvent'.executed <=> ~inThrottle
            /\ lastRun = -1 => lastEvent'.executed
            /\ (lastEvent'.executed /\ lastRun # -1) => now - lastRun >= ClickLimit
            /\ (lastEvent'.executed /\ isDrawing)
                  => /\ Len(polygonPoints') = Len(polygonPoints) + 1
                     /\ SubSeq(polygonPoints', 1, Len(polygonPoints)) = polygonPoints
            /\ ~lastEvent'.executed => polygonPoints' = polygonPoints
            /\ ~isDrawing => polygonPoints' = polygonPoints
       /\ lastEvent' = lastEvent => polygonPoints' = polygonPoints]_vars

\* a click that arrived inside the window was discarded, the window is
\* over and the ring still holds the one vertex of the click that ran
C29_Witness ==
    /\ lastEvent.event = "click"
    /\ ~lastEvent.executed
    /\ isDrawing
    /\ ~inThrottle
    /\ throttleTimer = -1
    /\ now >= lastRun + ClickLimit
    /\ Len(polygonPoints) = 1

\* C27: a submission timer is set only by a submitRequest made with a ring
\* of 3 vertices or more, an area of at least 1 km^2 and a user object in
\* window.currentUser; otherwise no timer is set, and areaCount grows only
\* when such a timer runs.
C27_SubmissionNeedsRingAreaUser ==
    [][/\ submissions' > submissions
            => /\ Len(polygonPoints) >= 3
               /\ AreaValue(polygonPoints) >= 1
               /\ currentUser = UserObject
       /\ areaCount' # areaCount
            => areaCount' = areaCount + 1 /\ submissions' = submissions - 1]_vars

\* C26: the callback of a file has been invoked once when its read is over
\* and not before, so processedFiles never exceeds the number of files;
\* the timer that removes the progress bar and shows the final
\* notification is set once, when the last read is over, and not before.
C26_OneCallbackPerFile ==
    /\ \A i \in 1..totalFiles : callbacks[i] = IF reads[i] = "done" THEN 1 ELSE 0
    /\ processedFiles <= totalFiles
    /\ finalTimers + finished <= 1
    /\ totalFiles > 0 =>
          (finalTimers + finished = 1 <=> \A i \in 1..totalFiles : reads[i] = "done")

====
